---- MODULE Spec2Model ----
(***************************************************************************)
(* A model of the comfyclaw network provider (scripts/comfyclaw.py,        *)
(* network_connect) and of the dashboard server's pipeline and batch       *)
(* orchestrators (scripts/server.py).                                      *)
(*                                                                         *)
(* The module holds eleven state machines over one set of variables; each  *)
(* specification moves one of them and leaves the others in their idle     *)
(* state:                                                                  *)
(*   SpecFrame  the frame codec: ws_send, ws_recv, _recv_all               *)
(*   SpecConn   the provider connection loop with execute_job              *)
(*   SpecPipe   _run_pipeline with the pipeline registry                   *)
(*   SpecBatch  _run_batch, the status handler and _process_outputs        *)
(*   SpecJob    execute_job's data: overrides, seeds, output type          *)
(*   SpecCreate POST /api/batch: the runs of a new batch                   *)
(*   SpecLock   PIPELINE_LOCK and BATCH_LOCK with the threads that take    *)
(*              them                                                       *)
(*   SpecTrack  _track_comfyui_progress: the messages it acts on and the   *)
(*              progress value it passes on                                *)
(*   SpecWrite  sock.sendall on the gateway socket from two threads        *)
(*   SpecStream the reader of a connection: handshake response, frames,    *)
(*              read timeouts                                              *)
(*   SpecNet    net_start, net_stop and net_status under _net_lock         *)
(***************************************************************************)
EXTENDS Integers, Sequences, FiniteSets, TLC

VARIABLES
  \* ---- frame codec
  fpc,        \* "start"; "sent" then "looped" (the client's own frame);
              \* "peer" then "received" (a frame of the gateway);
              \* "backend" then "relayed" (a ping on the relay's connection)
  payload,    \* the bytes handed to the encoder
  mask,       \* the 4 bytes os.urandom(4) gave the encoder
  wire,       \* the bytes the decoder's socket will deliver, then EOF
  recvd,      \* what ws_recv returned: [kind, data]
  pongs,      \* the bytes the reader wrote to its socket (pong frames)
  \* ---- provider connection (network_connect's main loop)
  cpc,          \* where the main thread is
  sockOpen,     \* the socket bound to `sock` is open
  cause,        \* what raised into the outer handler ("refused", "eof",
                \* "send") or ended the receive loop
  curJob,       \* job_id of the job being executed, 0 when none
  nextJob,      \* the id the gateway gives its next job
  pings,        \* ping messages the gateway sent
  polls,        \* iterations of execute_job's poll loop so far
  result,       \* the value execute_job returned
  jobsReceived, \* job ids read from this session's socket, in order
  sent,         \* messages written to this session's socket, in order
  job_id,       \* the main loop's variable job_id, 0 before the first job
  seen,         \* what execute_job has observed for the job it is executing
  relays,       \* per job id, where its _track_comfyui_progress thread is
  relayed,      \* progress messages the relay threads have passed on so far
  \* ---- pipeline orchestrator (_run_pipeline and the PIPELINES registry)
  ppc,          \* where the pipeline thread is
  steps,        \* the steps of the request
  idx,          \* the loop index of _run_pipeline (0-based, as in the code)
  prevOutput,   \* prev_output
  completed,    \* the thread's list `completed`
  pipeline,     \* the registry record PIPELINES[pipeline_id]
  ppolls,       \* iterations of the step's poll loop so far
  completedFlag,\* completed_flag
  submitted,    \* the submissions made to the backend: [step, value]
  firstOut,     \* per step, the first output reference the backend reported
  \* ---- batch orchestrator (_run_batch, the status handler, _process_outputs)
  bpc,          \* where the batch thread is
  bidx,         \* the index of the run _run_batch is at (1-based)
  runs,         \* the Run records of the batch
  bstatus,      \* BATCHES[batch_id]["status"]
  galleryFile,  \* gallery.json: per prompt id, the state of its record
  bLocal,       \* the gallery the batch thread loaded
  pollers,      \* the status requests in progress
  \* ---- execute_job's data: the submitted graph, the seeds, the output type
  jpc,          \* where execute_job is
  template,     \* the workflow's graph in the config (workflowJson)
  inputs,       \* the job's inputs: key |-> value
  prompt,       \* the graph execute_job works on
  resolved_seeds, \* resolved_seeds
  posted,       \* the graph in the body of POST /prompt, empty before
  filename,     \* the file name of the first output item
  output_type,  \* output_type
  later,        \* execute_job has run for this workflow before
  \* ---- POST /api/batch: the runs of a new batch
  hpc,          \* where the request handler is
  wfJson,       \* the workflow's graph in the config
  vary_seed,    \* vary_seed
  variations,   \* variations
  payloadInputs,\* payload["inputs"]
  newRuns,      \* the list `runs` the handler builds; calls counts the
                \* random.randint calls made for the run
  \* ---- the registry locks and the threads that take them
  lockOwner,    \* per lock, the thread holding it, "free" when none
  tpc,          \* per thread, where it is
  rounds,       \* per thread, the iterations of its loop it has finished
  regList,      \* the number of entries of the pipeline thread's `completed`
  regRec,       \* PIPELINES[pipeline_id]: status, currentStep, and whether
                \* its "completed" is the thread's list
  doneFlag,     \* completed_flag
  regRuns,      \* BATCHES[batch_id]["runs"]
  regStatus,    \* BATCHES[batch_id]["status"]
  entryDone,    \* the status request found a history entry for its prompt and
                \* the entry's status.completed is set
  \* ---- progress relay (_track_comfyui_progress's handling of one message)
  kpc,          \* "reading" while the relay's loop runs, "returned" after
  event,        \* the message the loop handled last, <<>> before the first
  called,       \* what that iteration passed to progress_cb, <<>> when it
                \* made no call
  progress,     \* the "progress" field _relay_progress then wrote, in
                \* thousandths; <<>> when nothing was written
  handled,      \* messages handled so far
  \* ---- writers of the gateway socket (sock.sendall)
  writer,       \* per thread: its position, the frames it has begun, and the
                \* bytes of its frame sendall has not yet handed to the socket
  stream,       \* the bytes that reached the socket, in order, each as
                \* <<thread, frame>>
  \* ---- reader of a connection (handshake response, then frames)
  peer,         \* bytes the peer has sent that have not arrived yet
  rcvbuf,       \* bytes that arrived at the socket and were not read yet
  rd,           \* the reader: its stage, the bytes it still needs, the
                \* bytes it holds, the frame header it decoded
  delivered,    \* the payloads ws_recv returned, in order
  peerFrames,   \* the payloads of the frames the peer sent, in order
  dropped,      \* bytes read from the socket and discarded: by the
                \* handshake, and by a read that timed out
  \* ---- provider subprocess (net_start, net_stop, net_status)
  netLock,      \* the thread holding _net_lock, "free" when none
  npc,          \* per request thread, where it is
  net_proc,     \* _net_proc: the pid of the Popen object, 0 for None
  alive,        \* the pids of the launched subprocesses that are alive
  nextPid       \* the pid the next launched subprocess gets

frameVars == <<fpc, payload, mask, wire, recvd, pongs>>
connVars == <<cpc, sockOpen, cause, curJob, nextJob, pings, polls, result,
              jobsReceived, sent, job_id, seen, relays, relayed>>

pipeVars == <<ppc, steps, idx, prevOutput, completed, pipeline, ppolls,
              completedFlag, submitted, firstOut>>
batchVars == <<bpc, bidx, runs, bstatus, galleryFile, bLocal, pollers>>

jobVars == <<jpc, template, inputs, prompt, resolved_seeds, posted, filename,
             output_type, later>>
createVars == <<hpc, wfJson, vary_seed, variations, payloadInputs, newRuns>>

lockVars == <<lockOwner, tpc, rounds, regList, regRec, doneFlag, regRuns, regStatus,
             entryDone>>

trackVars == <<kpc, event, called, progress, handled>>

writeVars == <<writer, stream>>

streamVars == <<peer, rcvbuf, rd, delivered, peerFrames, dropped>>

netVars == <<netLock, npc, net_proc, alive, nextPid>>

ioVars == <<writeVars, streamVars, netVars>>

vars == <<frameVars, connVars, pipeVars, batchVars, jobVars, createVars, lockVars,
         trackVars, ioVars>>

None == "None"

-----------------------------------------------------------------------------
(* Byte arithmetic *)

RECURSIVE BitXor(_, _)
\* b ^ mask[i % 4] on non-negative integers
BitXor(a, b) ==
  IF a = 0 THEN b
  ELSE IF b = 0 THEN a
  ELSE (((a % 2) + (b % 2)) % 2) + 2 * BitXor(a \div 2, b \div 2)

RECURSIVE BitOr(_, _)
\* 0x80 | length
BitOr(a, b) ==
  IF a = 0 THEN b
  ELSE IF b = 0 THEN a
  ELSE (IF (a % 2) + (b % 2) > 0 THEN 1 ELSE 0) + 2 * BitOr(a \div 2, b \div 2)

\* x & 0x0F, x & 0x7F: the low bits of a byte
LowBits(x, n) == x % n

RECURSIVE PackBE(_, _)
\* struct.pack(">H", v) is PackBE(v, 2), struct.pack(">Q", v) is PackBE(v, 8)
PackBE(v, n) ==
  IF n = 0 THEN <<>> ELSE PackBE(v \div 256, n - 1) \o <<v % 256>>

RECURSIVE UnpackBE(_)
\* struct.unpack(">H", b)[0] and struct.unpack(">Q", b)[0]
UnpackBE(b) ==
  IF Len(b) = 0 THEN 0
  ELSE 256 * UnpackBE(SubSeq(b, 1, Len(b) - 1)) + b[Len(b)]

\* bytes(b ^ mask[i % 4] for i, b in enumerate(payload))
MaskBytes(p, m) == [i \in 1..Len(p) |-> BitXor(p[i], m[((i - 1) % 4) + 1])]

-----------------------------------------------------------------------------
(* Frame codec: ws_send, _recv_all, ws_recv *)

ShortLimit == 126
WordLimit == 65536
OpText == 129
OpPing == 137
OpPong == 138
MaskBit == 128

\* The length part of the header ws_send writes
LengthHeader(length) ==
  IF length < ShortLimit THEN <<BitOr(MaskBit, length)>>
  ELSE IF length < WordLimit THEN <<BitOr(MaskBit, 126)>> \o PackBE(length, 2)
  ELSE <<BitOr(MaskBit, 127)>> \o PackBE(length, 8)

\* The bytes ws_send hands to sock.sendall for a payload and the mask it drew
WsSendBytes(p, m) ==
  LET masked == MaskBytes(p, m)
  IN  <<OpText>> \o LengthHeader(Len(masked)) \o m \o masked

\* _recv_all(sock, n) on a socket that delivers the bytes of s and then closes:
\* None when the stream ends before n bytes, which consumes what was there
RecvAll(s, n) ==
  IF Len(s) < n THEN [data |-> None, rest |-> <<>>]
  ELSE [data |-> SubSeq(s, 1, n), rest |-> SubSeq(s, n + 1, Len(s))]

\* The masked pong ws_recv answers a ping with
PongFrameEmpty(p, m) == <<OpPong, MaskBit>> \o m
PongFrame(p, m) ==
  LET masked == MaskBytes(p, m)
  IN  <<OpPong, BitOr(MaskBit, Len(masked))>> \o m \o masked

RECURSIVE WsRecvFrom(_, _, _)
\* ws_recv(sock): s the bytes the socket delivers, m the mask drawn for a pong,
\* out the bytes written so far.  kind is "payload", "none" (the function
\* returned None) or "error" (struct.unpack raised on a None buffer).
WsRecvFrom(s, m, out) ==
  LET header == RecvAll(s, 2) IN
  IF header.data = None
  THEN [kind |-> "none", data |-> <<>>, rest |-> header.rest, out |-> out]
  ELSE
    LET opcode == LowBits(header.data[1], 16)
        length == LowBits(header.data[2], 128)
    IN
    IF opcode = 8
    THEN [kind |-> "none", data |-> <<>>, rest |-> header.rest, out |-> out]
    ELSE IF opcode = 9
    THEN
      LET body == IF length > 0 THEN RecvAll(header.rest, length)
                  ELSE [data |-> <<>>, rest |-> header.rest]
          p == IF body.data = None THEN <<>> ELSE body.data
      IN  WsRecvFrom(body.rest, m, out \o PongFrame(p, m))
    ELSE
      LET ext == IF length = 126 THEN RecvAll(header.rest, 2)
                 ELSE IF length = 127 THEN RecvAll(header.rest, 8)
                 ELSE [data |-> <<>>, rest |-> header.rest]
      IN
      IF ext.data = None
      THEN [kind |-> "error", data |-> <<>>, rest |-> ext.rest, out |-> out]
      ELSE
        LET n == IF length \in {126, 127} THEN UnpackBE(ext.data) ELSE length
            body == IF n > 0 THEN RecvAll(ext.rest, n)
                    ELSE [data |-> <<>>, rest |-> ext.rest]
        IN
        IF body.data = None
        THEN [kind |-> "none", data |-> <<>>, rest |-> body.rest, out |-> out]
        ELSE [kind |-> "payload", data |-> body.data, rest |-> body.rest, out |-> out]

WsRecv(s, m) == WsRecvFrom(s, m, <<>>)

\* The pong the progress relay answers a ping with:
\* bytes([0x8A, len(payload)]) + payload
RelayPongFrame(p) == <<OpPong, Len(p)>> \o p

\* The ping branch of the relay's read loop on the bytes s: header = s.recv(2),
\* payload = s.recv(length) if length else b"", then the pong is sent
TrackPing(s) ==
  LET length == LowBits(s[2], 128)
      p == SubSeq(s, 3, 2 + length)
  IN  [out |-> RelayPongFrame(p), rest |-> SubSeq(s, 3 + length, Len(s))]

\* A frame as the gateway writes it (RFC 6455 server to client: not masked),
\* with the same length encoding
ServerFrame(b0, p) ==
  LET length == Len(p) IN
  <<b0>> \o
  (IF length < ShortLimit THEN <<length>>
   ELSE IF length < WordLimit THEN <<126>> \o PackBE(length, 2)
   ELSE <<127>> \o PackBE(length, 8)) \o p

-----------------------------------------------------------------------------
(* Idle states of the machines a specification does not move *)

NoResult == [type |-> "none", job |-> 0, error |-> ""]

ConnIdle ==
  /\ cpc = "idle"
  /\ sockOpen = FALSE
  /\ cause = ""
  /\ curJob = 0
  /\ nextJob = 1
  /\ pings = 0
  /\ polls = 0
  /\ result = NoResult
  /\ jobsReceived = <<>>
  /\ sent = <<>>
  /\ job_id = 0
  /\ seen = {}
  /\ relays = <<>>
  /\ relayed = 0

PipeIdle ==
  /\ ppc = "idle"
  /\ steps = <<>>
  /\ idx = 0
  /\ prevOutput = None
  /\ completed = <<>>
  /\ pipeline = [status |-> "none", currentStep |-> 0, aliased |-> FALSE]
  /\ ppolls = 0
  /\ completedFlag = FALSE
  /\ submitted = <<>>
  /\ firstOut = <<>>

BatchIdle ==
  /\ bpc = "idle"
  /\ bidx = 0
  /\ runs = <<>>
  /\ bstatus = "none"
  /\ galleryFile = <<>>
  /\ bLocal = <<>>
  /\ pollers = <<>>

JobIdle ==
  /\ jpc = "idle"
  /\ template = <<>>
  /\ inputs = <<>>
  /\ prompt = <<>>
  /\ resolved_seeds = <<>>
  /\ posted = <<>>
  /\ filename = <<>>
  /\ output_type = ""
  /\ later = FALSE

CreateIdle ==
  /\ hpc = "idle"
  /\ wfJson = <<>>
  /\ vary_seed = FALSE
  /\ variations = 0
  /\ payloadInputs = <<>>
  /\ newRuns = <<>>

LockIdle ==
  /\ lockOwner = <<>>
  /\ tpc = <<>>
  /\ rounds = <<>>
  /\ regList = 0
  /\ regRec = [status |-> "none", currentStep |-> 0, aliased |-> FALSE]
  /\ doneFlag = FALSE
  /\ regRuns = <<>>
  /\ regStatus = "none"
  /\ entryDone = FALSE

TrackIdle ==
  /\ kpc = "idle"
  /\ event = <<>>
  /\ called = <<>>
  /\ progress = <<>>
  /\ handled = 0

WriteIdle ==
  /\ writer = <<>>
  /\ stream = <<>>

StreamIdle ==
  /\ peer = <<>>
  /\ rcvbuf = <<>>
  /\ rd = <<>>
  /\ delivered = <<>>
  /\ peerFrames = <<>>
  /\ dropped = <<>>

NetIdle ==
  /\ netLock = "free"
  /\ npc = <<>>
  /\ net_proc = 0
  /\ alive = {}
  /\ nextPid = 0

IoIdle == WriteIdle /\ StreamIdle /\ NetIdle

-----------------------------------------------------------------------------
(* Bounds of the frame codec's inputs *)

\* payload lengths are taken within LenSlack of 0, of 126 and of 65536
LenSlack == 1
\* the payload bytes are (fill + i) % 256 for this many values of fill
MaxFill == 1

PayloadLens ==
  (0..LenSlack) \cup ((ShortLimit - LenSlack)..(ShortLimit + LenSlack))
    \cup ((WordLimit - LenSlack)..(WordLimit + LenSlack))

\* "{" is 123: the first byte of every JSON object ws_send serialises
FillBytes == {(123 + (77 * k)) % 256 : k \in 0..(MaxFill - 1)}

MaskKeys == {<<0, 0, 0, 0>>, <<1, 2, 3, 4>>, <<255, 90, 165, 16>>}

MakePayload(n, fill) == [i \in 1..n |-> IF i = 1 THEN fill ELSE (fill + i) % 256]

FrameInit ==
  /\ fpc = "start"
  /\ \E n \in PayloadLens, f \in FillBytes : payload = MakePayload(n, f)
  /\ mask \in MaskKeys
  /\ wire = <<>>
  /\ recvd = [kind |-> "none", data |-> <<>>]
  /\ pongs = <<>>

FrameIdle ==
  /\ fpc = "idle"
  /\ payload = <<>>
  /\ mask = <<0, 0, 0, 0>>
  /\ wire = <<>>
  /\ recvd = [kind |-> "none", data |-> <<>>]
  /\ pongs = <<>>

\* ws_send: the client writes the masked frame of payload
ClientSend ==
  /\ fpc = "start"
  /\ wire' = WsSendBytes(payload, mask)
  /\ fpc' = "sent"
  /\ UNCHANGED <<payload, mask, recvd, pongs>>
  /\ UNCHANGED <<connVars, pipeVars, batchVars, jobVars, createVars, lockVars, trackVars, ioVars>>

\* header[0] of a data frame: bit 0x80 is FIN, the low four bits the opcode.
\* A whole text message is 0x81; the first fragment of one is 0x01 (FIN
\* clear, opcode text), a fragment that follows 0x00 (FIN clear, opcode
\* continuation).
FinBit == 128
TextFragment == 1
Continuation == 0
PeerFirstBytes == {OpText, TextFragment, Continuation}

\* the payload of the pings sampled: the first bytes of payload, three at most
PingBytes(p) == SubSeq(p, 1, IF Len(p) < 3 THEN Len(p) ELSE 3)

\* the gateway writes payload in one frame, after a ping carrying the first
\* bytes of it when withPing
PeerSend ==
  /\ fpc = "start"
  /\ \E withPing \in BOOLEAN, b0 \in PeerFirstBytes :
       wire' = (IF withPing THEN ServerFrame(OpPing, PingBytes(payload)) ELSE <<>>)
                 \o ServerFrame(b0, payload)
  /\ fpc' = "peer"
  /\ UNCHANGED <<payload, mask, recvd, pongs>>
  /\ UNCHANGED <<connVars, pipeVars, batchVars, jobVars, createVars, lockVars, trackVars, ioVars>>

\* ws_recv on the bytes on the wire
ClientRecv ==
  /\ fpc \in {"sent", "peer"}
  /\ LET r == WsRecv(wire, mask) IN
       /\ recvd' = [kind |-> r.kind, data |-> r.data]
       /\ wire' = r.rest
       /\ pongs' = r.out
  /\ fpc' = IF fpc = "sent" THEN "looped" ELSE "received"
  /\ UNCHANGED <<payload, mask>>
  /\ UNCHANGED <<connVars, pipeVars, batchVars, jobVars, createVars, lockVars, trackVars, ioVars>>

\* the backend writes a ping on the progress relay's connection
BackendPing ==
  /\ fpc = "start"
  /\ wire' = ServerFrame(OpPing, PingBytes(payload))
  /\ fpc' = "backend"
  /\ UNCHANGED <<payload, mask, recvd, pongs>>
  /\ UNCHANGED <<connVars, pipeVars, batchVars, jobVars, createVars, lockVars, trackVars, ioVars>>

\* _track_comfyui_progress reads a ping in its read loop (s.recv giving the
\* bytes asked for): it sends the pong and goes on reading
RelayPong ==
  /\ fpc = "backend"
  /\ LET r == TrackPing(wire) IN
       /\ pongs' = r.out
       /\ wire' = r.rest
  /\ fpc' = "relayed"
  /\ UNCHANGED <<payload, mask, recvd>>
  /\ UNCHANGED <<connVars, pipeVars, batchVars, jobVars, createVars, lockVars, trackVars, ioVars>>

NextFrame == ClientSend \/ PeerSend \/ ClientRecv \/ BackendPing \/ RelayPong

InitFrame == FrameInit /\ ConnIdle /\ PipeIdle /\ BatchIdle /\ JobIdle /\ CreateIdle /\ LockIdle /\ TrackIdle /\ IoIdle

SpecFrame == InitFrame /\ [][NextFrame]_vars

-----------------------------------------------------------------------------
(* C1: frame round trip.  Feeding the bytes ws_send produced for a payload  *)
(* into ws_recv returns exactly that payload, for payloads under 126 bytes, *)
(* of 126..65535 bytes and over 65535 bytes.                                *)
C1_RoundTrip ==
  fpc = "looped" => (recvd.kind = "payload" /\ recvd.data = payload)

\* The decoder does return the payload of a frame the gateway wrote unmasked,
\* in each of the three length encodings, after answering a ping before it
PeerFrameDecoded ==
  fpc = "received" => (recvd.kind = "payload" /\ recvd.data = payload)

\* the payload of the ping frame at the head of the bytes s
PingPayload(s) == SubSeq(s, 3, 2 + s[2])

\* the bytes b are one masked pong frame whose payload, unmasked, is p
IsPongOf(b, p) ==
  /\ Len(b) = 6 + Len(p)
  /\ b[1] = OpPong
  /\ b[2] = MaskBit + Len(p)
  /\ MaskBytes(SubSeq(b, 7, Len(b)), SubSeq(b, 3, 6)) = p

\* C15: for every ping frame received on the gateway connection, a pong frame
\* with the identical payload is written to the socket before the decoder
\* returns the next application message to its caller, and the ping itself
\* is never returned to the caller.
C15_PingAnswered ==
  [][(fpc = "peer" /\ fpc' = "received") =>
       IF wire[1] = OpPing
       THEN /\ IsPongOf(pongs', PingPayload(wire))
            /\ recvd' = [kind |-> "payload", data |-> payload]
       ELSE pongs' = <<>>]_vars

C15_Witness ==
  /\ fpc = "received"
  /\ Len(pongs) = 9
  /\ mask # <<0, 0, 0, 0>>
  /\ recvd = [kind |-> "payload", data |-> payload]

\* header[0] of the data frame in the bytes s, which may follow one ping
DataFrameByte(s) == IF s[1] = OpPing THEN s[3 + s[2]] ELSE s[1]

\* C23: a received frame with fin=0 (fragmented or continuation frame) is a
\* protocol violation: the decoder never returns its payload to the caller as
\* an application message, and the session is terminated.
C23_FragmentRejected ==
  [][(fpc = "peer" /\ fpc' = "received" /\ DataFrameByte(wire) < FinBit)
       => recvd'.kind \in {"none", "error"}]_vars

\* What does hold: ws_recv reads the opcode and the length of the header and
\* nothing else, so a frame with FIN clear is returned like a whole message
FragmentReturnedAsMessage ==
  [][(fpc = "peer" /\ fpc' = "received" /\ DataFrameByte(wire) < FinBit)
       => recvd' = [kind |-> "payload", data |-> payload]]_vars

\* the bytes b are one client frame of opcode byte op: the mask bit is set,
\* the four bytes of the key follow the length, and the rest, XOR-ed with the
\* key, is p
IsMaskedFrame(b, op, p) ==
  /\ Len(b) >= 6
  /\ b[1] = op
  /\ b[2] >= MaskBit
  /\ LET code == b[2] - MaskBit
         hdr == IF code < 126 THEN 2 ELSE IF code = 126 THEN 4 ELSE 10
     IN  /\ Len(b) = hdr + 4 + Len(p)
         /\ MaskBytes(SubSeq(b, hdr + 5, Len(b)), SubSeq(b, hdr + 1, hdr + 4)) = p

\* C24: every frame this client writes on a WebSocket session is
\* client-masked (mask bit set, 4-byte mask key present, payload XOR-ed with
\* the key); in particular every pong sent in answer to a ping, on the
\* gateway connection and on the progress-relay connection alike, is masked
\* and carries the ping's payload.
C24_ClientFramesMasked ==
  /\ fpc = "sent" => IsMaskedFrame(wire, OpText, payload)
  /\ (fpc = "received" /\ pongs # <<>>) => IsMaskedFrame(pongs, OpPong, PingBytes(payload))
  /\ fpc = "relayed" => IsMaskedFrame(pongs, OpPong, PingBytes(payload))

\* What does hold: the frames written on the gateway connection, text and
\* pong, are masked; the relay's pong carries the ping's payload in the clear
\* behind a length byte without the mask bit
GatewayFramesMasked ==
  /\ fpc = "sent" => IsMaskedFrame(wire, OpText, payload)
  /\ (fpc = "received" /\ pongs # <<>>) => IsMaskedFrame(pongs, OpPong, PingBytes(payload))
  /\ fpc = "relayed" =>
       (pongs[2] < MaskBit /\ SubSeq(pongs, 3, Len(pongs)) = PingBytes(payload))

-----------------------------------------------------------------------------
(* Provider connection: the main loop of network_connect with execute_job   *)
(*                                                                         *)
(* cpc is the main thread's position:                                      *)
(*   Connecting    create_connection and the Upgrade request               *)
(*   Handshaking   reading the response up to the header terminator        *)
(*   Ready         sending the ready message                               *)
(*   Listening     ws_recv in the receive loop                             *)
(*   ExecLookup .. ExecPoll   inside execute_job                           *)
(*   SendResult    ws_send(sock, result)                                   *)
(*   Closing       sock.close() after the receive loop broke               *)
(*   RejectDelay   time.sleep(5) after a non-101 response                  *)
(*   ErrorDelay    time.sleep(5) in the outer except handler               *)
(*   Stopped       after KeyboardInterrupt                                 *)
(***************************************************************************)

\* job and ping messages the gateway sends, taken together
MaxMessages == 2
\* stands for the 300 iterations of execute_job's poll loop
PollBudget == 2
\* progress messages the relay threads pass on
MaxProgress == 1

Msg(t, j) == [type |-> t, job |-> j, error |-> ""]
FailedNoReason(j, why) == [type |-> "failed", job |-> j, error |-> ""]
Failed(j, why) == [type |-> "failed", job |-> j, error |-> why]
CompleteAnonymous(j) == [type |-> "complete", job |-> 0, error |-> ""]
Complete(j) == [type |-> "complete", job |-> j, error |-> ""]

DelayStates == {"RejectDelay", "ErrorDelay"}
ExecStates == {"ExecLookup", "ExecSubmit", "ExecPoll", "SendResult"}

ConnInit ==
  /\ cpc = "Connecting"
  /\ sockOpen = FALSE
  /\ cause = ""
  /\ curJob = 0
  /\ nextJob = 1
  /\ pings = 0
  /\ polls = 0
  /\ result = NoResult
  /\ jobsReceived = <<>>
  /\ sent = <<>>
  /\ job_id = 0
  /\ seen = {}
  /\ relays = <<>>
  /\ relayed = 0

\* what a new session starts from: a new socket, on it nothing read or
\* written yet.  The variable job_id and the relay threads started so far
\* outlive the session, and the gateway goes on numbering its jobs.
NewSession ==
  /\ curJob' = 0
  /\ polls' = 0
  /\ result' = NoResult
  /\ jobsReceived' = <<>>
  /\ sent' = <<>>
  /\ seen' = {}
  /\ UNCHANGED <<nextJob, pings, job_id, relays, relayed>>

SameSession ==
  UNCHANGED <<curJob, nextJob, pings, polls, result, jobsReceived, sent,
              job_id, seen, relays, relayed>>

\* an exception reaching `except Exception` of the outer try
Raise(why) ==
  /\ cpc' = "ErrorDelay"
  /\ cause' = why

\* create_connection (and the TLS wrap), then sendall of the Upgrade request
Connect ==
  /\ cpc = "Connecting"
  /\ \E ok \in BOOLEAN :
       IF ok
       THEN /\ sockOpen' = TRUE
            /\ cpc' = "Handshaking"
            /\ cause' = ""
       ELSE /\ Raise("refused")
            /\ UNCHANGED sockOpen
  /\ NewSession
  /\ UNCHANGED <<frameVars, pipeVars, batchVars, jobVars, createVars, lockVars, trackVars, ioVars>>

\* the response has a status line with 101
HandshakeAccepted ==
  /\ cpc = "Handshaking"
  /\ cpc' = "Ready"
  /\ UNCHANGED <<sockOpen, cause>>
  /\ SameSession
  /\ UNCHANGED <<frameVars, pipeVars, batchVars, jobVars, createVars, lockVars, trackVars, ioVars>>

\* the status line has no 101: sock.close(), then time.sleep(5)
HandshakeRejected ==
  /\ cpc = "Handshaking"
  /\ sockOpen' = FALSE
  /\ cpc' = "RejectDelay"
  /\ UNCHANGED cause
  /\ SameSession
  /\ UNCHANGED <<frameVars, pipeVars, batchVars, jobVars, createVars, lockVars, trackVars, ioVars>>

\* recv returned no bytes before the header terminator: ConnectionError;
\* a recv that times out or fails raises likewise
HandshakeEof ==
  /\ cpc = "Handshaking"
  /\ Raise("eof")
  /\ UNCHANGED sockOpen
  /\ SameSession
  /\ UNCHANGED <<frameVars, pipeVars, batchVars, jobVars, createVars, lockVars, trackVars, ioVars>>

\* ws_send of the ready message
SendReady ==
  /\ cpc = "Ready"
  /\ \E ok \in BOOLEAN :
       IF ok
       THEN /\ sent' = Append(sent, Msg("ready", 0))
            /\ cpc' = "Listening"
            /\ UNCHANGED cause
       ELSE /\ Raise("send")
            /\ UNCHANGED sent
  /\ UNCHANGED <<sockOpen, curJob, nextJob, pings, polls, result, jobsReceived>>
  /\ UNCHANGED <<job_id, seen, relays, relayed>>
  /\ UNCHANGED <<frameVars, pipeVars, batchVars, jobVars, createVars, lockVars, trackVars, ioVars>>

\* What ends the receive loop before a message is dispatched:
\*   closed     ws_recv returned None (stream closed or close frame)
\*   badframe   ws_recv raised on the frame (struct.unpack of a None buffer)
\*   notjson    frame.decode or json.loads raised
\*   notobject  the JSON value is no object: msg.get raised
ReceiveFailures == {"closed", "badframe", "notjson", "notobject"}

\* `except Exception` of the receive loop: break, on to sock.close()
OnReceiveErrorExit == "Stopped"
OnReceiveError == "Closing"

\* the receive loop breaks on what it read
RecvBreak ==
  /\ cpc = "Listening"
  /\ \E why \in ReceiveFailures : cause' = why
  /\ cpc' = OnReceiveError
  /\ UNCHANGED sockOpen
  /\ SameSession
  /\ UNCHANGED <<frameVars, pipeVars, batchVars, jobVars, createVars, lockVars, trackVars, ioVars>>

\* socket.timeout in ws_recv: continue
RecvTimeout ==
  /\ cpc = "Listening"
  /\ UNCHANGED <<cpc, sockOpen, cause>>
  /\ SameSession
  /\ UNCHANGED <<frameVars, pipeVars, batchVars, jobVars, createVars, lockVars, trackVars, ioVars>>

\* a message that is neither ping nor job: nothing is done with it
RecvOther ==
  /\ cpc = "Listening"
  /\ UNCHANGED <<cpc, sockOpen, cause>>
  /\ SameSession
  /\ UNCHANGED <<frameVars, pipeVars, batchVars, jobVars, createVars, lockVars, trackVars, ioVars>>

\* the gateway has a job or ping message left to send
MessagesLeft == (nextJob - 1) + pings < MaxMessages

\* {"type": "ping"}: ws_send of the pong
RecvPing ==
  /\ cpc = "Listening"
  /\ MessagesLeft
  /\ pings' = pings + 1
  /\ \E ok \in BOOLEAN :
       IF ok
       THEN /\ sent' = Append(sent, Msg("pong", 0))
            /\ UNCHANGED cpc
       ELSE /\ cpc' = "Closing"
            /\ UNCHANGED sent
  /\ UNCHANGED <<sockOpen, cause, curJob, nextJob, polls, result, jobsReceived>>
  /\ UNCHANGED <<job_id, seen, relays, relayed>>
  /\ UNCHANGED <<frameVars, pipeVars, batchVars, jobVars, createVars, lockVars, trackVars, ioVars>>

\* where the main thread goes once the job's first progress message is sent:
\* into execute_job, called in the receive loop's own thread
AfterDispatchDetached == "Listening"
AfterDispatch == "ExecLookup"

\* {"type": "job"}: job_id is bound, the 0.05 progress message is sent and
\* execute_job is called.  A message without job_id raises before job_id is
\* bound, one without workflow_id raises after.
RecvJob ==
  /\ cpc = "Listening"
  /\ MessagesLeft
  /\ nextJob' = nextJob + 1
  /\ \E outcome \in {"ok", "nojobid", "nowfid", "sendfails"} :
       IF outcome \in {"nojobid", "nowfid"}
       THEN /\ cpc' = "Closing"
            /\ job_id' = IF outcome = "nowfid" THEN nextJob ELSE job_id
            /\ UNCHANGED <<curJob, jobsReceived, sent, polls, result, seen>>
       ELSE /\ jobsReceived' = Append(jobsReceived, nextJob)
            /\ job_id' = nextJob
            /\ polls' = 0
            /\ result' = NoResult
            /\ seen' = {}
            /\ IF outcome = "ok"
               THEN /\ sent' = Append(sent, Msg("progress", nextJob))
                    /\ curJob' = nextJob
                    /\ cpc' = AfterDispatch
               ELSE /\ cpc' = "Closing"
                    /\ UNCHANGED <<sent, curJob>>
  /\ UNCHANGED <<sockOpen, cause, pings, relays, relayed>>
  /\ UNCHANGED <<frameVars, pipeVars, batchVars, jobVars, createVars, lockVars, trackVars, ioVars>>

\* execute_job returns r
Return(r) ==
  /\ result' = r
  /\ cpc' = "SendResult"

\* the lookups after which execute_job returns at once
ConfigMissingWorkflowOnly == {"nowf"}
ConfigMissing == {"nowf", "nosrv"}

\* execute_job: the workflow and its server are looked up in the local config.
\* The job message and the config are taken to have the shapes the program
\* reads them with: inputs is a mapping, the workflow's graph a mapping of
\* node ids to nodes, the backend's prompt id a string.
JobLookup ==
  /\ cpc = "ExecLookup"
  /\ \E found \in {"bound", "nowf", "nosrv"} :
       /\ seen' = seen \cup {found}
       /\ IF found \in ConfigMissing
          THEN Return(Failed(curJob, IF found = "nowf"
                                     THEN "workflow not found locally"
                                     ELSE "no ComfyUI server"))
          ELSE cpc' = "ExecSubmit" /\ UNCHANGED result
  /\ UNCHANGED <<sockOpen, cause, curJob, nextJob, pings, polls, jobsReceived,
                 sent, job_id, relays, relayed>>
  /\ UNCHANGED <<frameVars, pipeVars, batchVars, jobVars, createVars, lockVars, trackVars, ioVars>>

\* progress_cb is given: a daemon thread running _track_comfyui_progress is
\* started for the job
StartRelay(j) == (j :> "connecting") @@ relays

\* execute_job: POST /prompt, and the relay thread is started when the
\* response has a prompt id
JobSubmit ==
  /\ cpc = "ExecSubmit"
  /\ \E resp \in {"submitted", "noid", "submiterror"} :
       /\ seen' = seen \cup {resp}
       /\ CASE resp = "noid" ->
                 /\ Return(Failed(curJob, "no prompt_id from ComfyUI"))
                 /\ UNCHANGED relays
            [] resp = "submiterror" ->
                 /\ Return(Failed(curJob, "ComfyUI submit error"))
                 /\ UNCHANGED relays
            [] OTHER ->
                 /\ cpc' = "ExecPoll"
                 /\ relays' = StartRelay(curJob)
                 /\ UNCHANGED result
  /\ UNCHANGED <<sockOpen, cause, curJob, nextJob, pings, polls, jobsReceived,
                 sent, job_id, relayed>>
  /\ UNCHANGED <<frameVars, pipeVars, batchVars, jobVars, createVars, lockVars, trackVars, ioVars>>

\* range(300): whether the poll loop has an iteration left after n of them
BudgetLeftOneMore(n) == n <= PollBudget
BudgetLeft(n) == n < PollBudget

\* execute_job: one iteration of the poll loop.  An exception of the status
\* request ("error") or of the download ("downloadfails") is swallowed by
\* `except Exception: pass` and the loop goes on.
JobPoll ==
  /\ cpc = "ExecPoll"
  /\ BudgetLeft(polls)
  /\ polls' = polls + 1
  /\ \E got \in {"error", "pending", "nooutput", "downloaded", "downloadfails"} :
       /\ seen' = seen \cup {got}
       /\ CASE got = "nooutput" -> Return(Failed(curJob, "no output files"))
            [] got = "downloaded" -> Return(Complete(curJob))
            [] OTHER -> UNCHANGED <<cpc, result>>
  /\ UNCHANGED <<sockOpen, cause, curJob, nextJob, pings, jobsReceived, sent,
                 job_id, relays, relayed>>
  /\ UNCHANGED <<frameVars, pipeVars, batchVars, jobVars, createVars, lockVars, trackVars, ioVars>>

\* execute_job: the loop ran out
JobTimeout ==
  /\ cpc = "ExecPoll"
  /\ ~BudgetLeft(polls)
  /\ Return(Failed(curJob, "timeout waiting for ComfyUI"))
  /\ UNCHANGED <<sockOpen, cause, curJob, nextJob, pings, polls, jobsReceived,
                 sent, job_id, seen, relays, relayed>>
  /\ UNCHANGED <<frameVars, pipeVars, batchVars, jobVars, createVars, lockVars, trackVars, ioVars>>

\* What the log of the socket keeps of a message: its type, its job id, and
\* of the error text whether there is one
OnWire(m) ==
  [type |-> m.type, job |-> m.job, error |-> IF m.error = "" THEN "" ELSE "reason"]

\* ws_send(sock, result), back in the receive loop.  What execute_job held
\* for the job is not read again.
SendResult ==
  /\ cpc = "SendResult"
  /\ \E ok \in BOOLEAN :
       IF ok
       THEN /\ sent' = Append(sent, OnWire(result))
            /\ cpc' = "Listening"
       ELSE /\ cpc' = "Closing"
            /\ UNCHANGED sent
  /\ curJob' = 0
  /\ polls' = 0
  /\ result' = NoResult
  /\ seen' = {}
  /\ UNCHANGED <<sockOpen, cause, nextJob, pings, jobsReceived, job_id, relays, relayed>>
  /\ UNCHANGED <<frameVars, pipeVars, batchVars, jobVars, createVars, lockVars, trackVars, ioVars>>

\* after the receive loop: sock.close(), and the outer loop starts over
CloseAfterLoop ==
  /\ cpc = "Closing"
  /\ sockOpen' = FALSE
  /\ cpc' = "Connecting"
  /\ UNCHANGED cause
  /\ SameSession
  /\ UNCHANGED <<frameVars, pipeVars, batchVars, jobVars, createVars, lockVars, trackVars, ioVars>>

\* time.sleep(5) returns, after a non-101 response or in the except handler
DelayElapsed ==
  /\ cpc \in DelayStates
  /\ cpc' = "Connecting"
  /\ UNCHANGED <<sockOpen, cause>>
  /\ SameSession
  /\ UNCHANGED <<frameVars, pipeVars, batchVars, jobVars, createVars, lockVars, trackVars, ioVars>>

\* KeyboardInterrupt: the handler closes the socket and leaves the loop; raised
\* during the except handler's sleep it ends the process as well.  The relay
\* threads are daemon threads and end with the process.
Interrupt ==
  /\ cpc # "Stopped"
  /\ cpc' = "Stopped"
  /\ sockOpen' = IF cpc = "ErrorDelay" THEN sockOpen ELSE FALSE
  /\ relays' = <<>>
  /\ UNCHANGED <<cause, curJob, nextJob, pings, polls, result, jobsReceived,
                 sent, job_id, seen, relayed>>
  /\ UNCHANGED <<frameVars, pipeVars, batchVars, jobVars, createVars, lockVars, trackVars, ioVars>>

-----------------------------------------------------------------------------
(* Progress relay: _track_comfyui_progress, one daemon thread per submitted *)
(* job.  relays[j] is the position of the thread started for job j:         *)
(*   connecting   create_connection to the backend, the Upgrade request    *)
(*                and the response                                         *)
(*   reading      the read loop                                            *)
(* and j leaves the domain of relays when the function returns.            *)
(***************************************************************************)

RelayAt(j, at) == j \in DOMAIN relays /\ relays[j] = at

\* the threads are daemon threads: they run as long as the process does
RelayRuns == cpc \notin {"idle", "Stopped"}

RelayTo(j, at) == relays' = [relays EXCEPT ![j] = at]

\* _track_comfyui_progress returns
RelayReturns(j) == relays' = [k \in DOMAIN relays \ {j} |-> relays[k]]

\* What a failure inside the relay thread does to the thread in execute_job:
\* nothing.  The exceptions of _track_comfyui_progress end in its own
\* `except Exception`, those of the callback in _relay_progress's.
RelayFailureFailsJob ==
  IF cpc = "ExecPoll"
  THEN Return(Failed(curJob, "progress relay failed"))
  ELSE UNCHANGED <<cpc, result>>
RelayFailure == UNCHANGED <<cpc, result>>

RelayLeavesMain ==
  /\ UNCHANGED <<sockOpen, cause, curJob, nextJob, pings, polls, jobsReceived,
                 job_id, seen>>
  /\ UNCHANGED <<frameVars, pipeVars, batchVars, jobVars, createVars, lockVars, trackVars, ioVars>>

\* create_connection((host, port), timeout=10), the Upgrade request and the
\* response: a status line with 101, or the connection is refused, the status
\* line has no 101, the stream closes before the header terminator, or the
\* socket fails
RelayOpen(j) ==
  /\ RelayRuns
  /\ RelayAt(j, "connecting")
  /\ \E resp \in {"accepted", "refused", "rejected", "eof", "error"} :
       IF resp = "accepted"
       THEN RelayTo(j, "reading") /\ UNCHANGED <<cpc, result>>
       ELSE RelayReturns(j) /\ RelayFailure
  /\ UNCHANGED <<sent, relayed>>
  /\ RelayLeavesMain

\* a progress message of the thread's own prompt (or one that names no
\* prompt): progress_cb is called, which is _relay_progress: ws_send on the
\* socket `sock` is bound to at that time, of a progress message with the
\* value job_id has at that time; whatever ws_send raises is swallowed
RelayProgress(j) ==
  /\ RelayRuns
  /\ RelayAt(j, "reading")
  /\ relayed < MaxProgress
  /\ relayed' = relayed + 1
  /\ \E ok \in BOOLEAN :
       IF ok /\ sockOpen
       THEN sent' = Append(sent, Msg("progress", job_id)) /\ UNCHANGED <<cpc, result>>
       ELSE UNCHANGED sent /\ RelayFailure
  /\ UNCHANGED relays
  /\ RelayLeavesMain

\* a read that times out, a ping (answered with a pong on the relay's own
\* socket), an empty or non-JSON payload, a message of another prompt or of
\* another type: the loop goes on
RelaySkip(j) ==
  /\ RelayRuns
  /\ RelayAt(j, "reading")
  /\ UNCHANGED <<relays, relayed, sent, cpc, result>>
  /\ RelayLeavesMain

\* the read loop ends: an executed message, a close frame, a closed stream,
\* a socket error, a message the handler raises on, or the 600 seconds are over
RelayEnd(j) ==
  /\ RelayRuns
  /\ RelayAt(j, "reading")
  /\ \E why \in {"executed", "closed", "error", "deadline"} :
       IF why = "executed" THEN UNCHANGED <<cpc, result>> ELSE RelayFailure
  /\ RelayReturns(j)
  /\ UNCHANGED <<sent, relayed>>
  /\ RelayLeavesMain

NextConn ==
  \/ Connect \/ HandshakeAccepted \/ HandshakeRejected \/ HandshakeEof
  \/ SendReady \/ RecvBreak \/ RecvTimeout \/ RecvOther \/ RecvPing
  \/ RecvJob \/ JobLookup \/ JobSubmit \/ JobPoll \/ JobTimeout
  \/ SendResult \/ CloseAfterLoop \/ DelayElapsed \/ Interrupt
  \/ \E j \in 1..MaxMessages : RelayOpen(j)
  \/ \E j \in 1..MaxMessages : RelayProgress(j)
  \/ \E j \in 1..MaxMessages : RelaySkip(j)
  \/ \E j \in 1..MaxMessages : RelayEnd(j)

InitConn == ConnInit /\ FrameIdle /\ PipeIdle /\ BatchIdle /\ JobIdle /\ CreateIdle /\ LockIdle /\ TrackIdle /\ IoIdle

SpecConn == InitConn /\ [][NextConn]_vars

-----------------------------------------------------------------------------
(* Claims about the provider connection *)

\* C2: every transition of the connection from Disconnected back to
\* Connecting is preceded by the fixed 5-second wait, whatever caused the
\* disconnect; no path reconnects without the delay.
C2_ReconnectAfterDelay ==
  [][(cpc' = "Connecting" /\ cpc # "Connecting") => cpc \in DelayStates]_vars

\* C3: a handshake that fails (status line without 101, or stream closed
\* before the header terminator) makes the client close the socket, wait the
\* fixed delay and attempt the handshake again; the loop ends only on an
\* operator interrupt.
C3_HandshakeFailureRetries ==
  /\ [][cpc = "Handshaking" /\ cpc' \notin {"Handshaking", "Ready", "Stopped"}
          => (cpc' \in DelayStates /\ ~sockOpen')]_vars
  /\ [][(cpc \in DelayStates /\ cpc' # cpc) => cpc' \in {"Connecting", "Stopped"}]_vars
  /\ [][cpc' = "Stopped" => Interrupt]_vars

\* What does hold of a failed handshake: the wait always comes before the
\* next attempt, and only an interrupt ends the loop; the socket is closed
\* before the wait only on the non-101 path.
HandshakeFailureWaits ==
  /\ [][cpc = "Handshaking" /\ cpc' \notin {"Handshaking", "Ready", "Stopped"}
          => cpc' \in DelayStates]_vars
  /\ [][(cpc \in DelayStates /\ cpc' # cpc) => cpc' \in {"Connecting", "Stopped"}]_vars
  /\ [][cpc' = "Stopped" => Interrupt]_vars

\* the job ids of the result messages sent in this session, in order
RECURSIVE ResultIds(_)
ResultIds(log) ==
  IF log = <<>> THEN <<>>
  ELSE LET m == log[Len(log)]
           front == ResultIds(SubSeq(log, 1, Len(log) - 1))
       IN  IF m.type \in {"complete", "failed"} THEN Append(front, m.job) ELSE front

IsPrefix(a, b) == Len(a) <= Len(b) /\ SubSeq(b, 1, Len(a)) = a

\* C10: on one gateway connection jobs are executed one at a time: no job
\* message is read or started while a previous job is executing, and result
\* messages are sent in exactly the order the job messages were received.
C10_SequentialJobs ==
  /\ IsPrefix(ResultIds(sent), jobsReceived)
  /\ Len(jobsReceived) - Len(ResultIds(sent)) <= 1
  /\ cpc = "Listening" => (curJob = 0 /\ ResultIds(sent) = jobsReceived)
  /\ curJob # 0 => cpc \in ExecStates \cup {"Stopped"}

C10_Witness ==
  /\ cpc = "Listening"
  /\ Len(jobsReceived) >= 2
  /\ ResultIds(sent) = jobsReceived

\* the positions inside execute_job
ExecCore == {"ExecLookup", "ExecSubmit", "ExecPoll"}

ResultTypes == {"complete", "failed"}

FailedWritten ==
  /\ Len(sent') = Len(sent) + 1
  /\ sent'[Len(sent')].type = "failed"

Reported == {"nooutput", "downloaded", "downloadfails"}

Timeout == "timeout waiting for ComfyUI"

\* C13: a job whose backend status never reports completion terminates after
\* at most 300 status polls (a poll that raises a transport error counts as
\* one attempt and is retried, not fatal) and yields a failed result with the
\* timeout reason, not an exception.
C13_TimeoutPath ==
  /\ [](polls <= PollBudget)
  /\ [][(cpc = "ExecPoll" /\ seen' # seen)
          => (polls' = polls + 1 /\ cpc' \in {"ExecPoll", "SendResult"})]_vars
  /\ [][(cpc = "ExecPoll") => (cpc' \in {"ExecPoll", "SendResult"} \/ Interrupt)]_vars
  /\ [][(cpc = "ExecPoll" /\ cpc' = "SendResult" /\ seen' \cap Reported = {})
          => (polls = PollBudget /\ result' = Failed(curJob, Timeout))]_vars
  /\ [](cpc = "ExecPoll" /\ polls = PollBudget => ENABLED JobTimeout)

C13_Witness ==
  /\ cpc = "SendResult"
  /\ result = [type |-> "failed", job |-> curJob, error |-> Timeout]
  /\ polls = PollBudget
  /\ seen = {"bound", "submitted", "error", "pending"}

\* the result execute_job returns for job j after the observations obs of
\* its own requests
ExpectedResult(j, obs) ==
  CASE "nowf" \in obs -> [type |-> "failed", job |-> j, error |-> "workflow not found locally"]
    [] "nosrv" \in obs -> [type |-> "failed", job |-> j, error |-> "no ComfyUI server"]
    [] "noid" \in obs -> [type |-> "failed", job |-> j, error |-> "no prompt_id from ComfyUI"]
    [] "submiterror" \in obs -> [type |-> "failed", job |-> j, error |-> "ComfyUI submit error"]
    [] "nooutput" \in obs -> [type |-> "failed", job |-> j, error |-> "no output files"]
    [] "downloaded" \in obs -> [type |-> "complete", job |-> j, error |-> ""]
    [] OTHER -> [type |-> "failed", job |-> j, error |-> Timeout]

\* C16: relay failure never fails the job: for every behaviour of the
\* progress relay (connection refused, non-101 handshake, stream closed,
\* socket error, malformed message, 10-minute timeout, or a failing progress
\* callback), the result returned by the job executor is the one its own
\* requests determine, as with no relay at all.
C16_RelayNeverFailsJob ==
  /\ cpc \in ExecCore => result = NoResult
  /\ cpc = "SendResult" => result = ExpectedResult(curJob, seen)
  /\ cpc = "SendResult" /\ polls < PollBudget =>
       seen \cap {"nowf", "nosrv", "noid", "submiterror", "nooutput", "downloaded"} # {}

\* a job completed although its relay thread has already returned
C16_Witness ==
  /\ cpc = "SendResult"
  /\ result.type = "complete"
  /\ curJob \notin DOMAIN relays

\* C17: when the job's workflow id is not in the local config, or the
\* workflow's server reference matches no configured server, the executor
\* returns failed immediately without making any backend call (no submit, no
\* poll), without starting the relay and without retrying.
C17_ConfigError ==
  seen \cap {"nowf", "nosrv"} # {} =>
    /\ cpc \in {"SendResult", "Stopped"}
    /\ result.type = "failed" /\ result.job = curJob
    /\ result.error \in {"workflow not found locally", "no ComfyUI server"}
    /\ Cardinality(seen) = 1
    /\ polls = 0
    /\ curJob \notin DOMAIN relays

C17_Witness ==
  /\ cpc = "SendResult"
  /\ seen = {"nosrv"}
  /\ result.error = "no ComfyUI server"

\* C18: the executor returns the timeout reason only when the poll budget was
\* exhausted without the backend ever reporting the job completed; an HTTP
\* failure of the backend after completion was reported (for example while
\* downloading the output) is reported as that job's failure with a reason
\* other than timeout.
C18_TimeoutOnlyIfNeverReported ==
  /\ (cpc = "SendResult" /\ result.error = Timeout) =>
       (polls = PollBudget /\ seen \cap Reported = {})
  /\ (cpc = "SendResult" /\ "downloadfails" \in seen) =>
       (result.type = "failed" /\ result.error # Timeout)

\* What does hold: the timeout reason is returned only when the budget is
\* used up and no poll ended in a result
TimeoutOnlyAfterBudget ==
  (cpc = "SendResult" /\ result.error = Timeout) =>
    (polls = PollBudget /\ seen \cap {"nooutput", "downloaded"} = {})

\* the positions of the main thread from the receive loop on
AfterReady == {"Listening", "SendResult", "Closing"} \cup ExecCore

\* C21: in every session, after a successful handshake exactly one ready
\* message (workflows plus GPU info) is sent, and it is sent before any
\* message is read from the gateway and before any progress or result message
\* of that session.
C21_ReadyFirst ==
  /\ \A i \in 1..Len(sent) : (sent[i].type = "ready") <=> (i = 1)
  /\ cpc \in AfterReady => sent # <<>>
  /\ jobsReceived # <<>> => sent # <<>>

\* What does hold: the session's socket carries at most one ready message,
\* which the main thread writes before it reads anything; what is written
\* ahead of it comes from the relay thread of an earlier session's job
ReadyOnceBeforeReading ==
  /\ [](Cardinality({i \in 1..Len(sent) : sent[i].type = "ready"}) <= 1)
  /\ [](cpc \in AfterReady =>
          Cardinality({i \in 1..Len(sent) : sent[i].type = "ready"}) = 1)
  /\ [][(cpc \in {"Handshaking", "Ready"} /\ sent' # sent /\ cpc' = cpc)
          => \E j \in DOMAIN relays : RelayProgress(j)]_vars
  /\ [][(cpc \in {"Handshaking", "Ready"} /\ sent' # sent /\ cpc' # cpc)
          => (cpc = "Ready" /\ cpc' = "Listening"
              /\ sent' = Append(sent, Msg("ready", 0)))]_vars

\* the received messages the program cannot read as a message
Malformed == {"badframe", "notjson", "notobject"}

\* C22: a received message that is not valid JSON (or is otherwise malformed)
\* in Listening makes the client drop the connection and go back to
\* Connecting; it never terminates the process and never leaves the client
\* stuck outside the Connecting/Listening cycle.
C22_MalformedDropsConnection ==
  /\ [](cpc = "Listening" => cause = "")
  /\ [][(cpc = "Listening" /\ cause' \in Malformed) => cpc' = "Closing"]_vars
  /\ [][(cpc = "Closing" /\ cpc' # "Closing")
          => ((cpc' = "Connecting" /\ ~sockOpen') \/ Interrupt)]_vars
  /\ [](cpc = "Closing" => ENABLED CloseAfterLoop)
  /\ [](cpc = "Connecting" => ENABLED Connect)
  /\ [][(cpc = "Connecting" /\ cpc' # "Connecting")
          => (cpc' \in {"Handshaking", "ErrorDelay"} \/ Interrupt)]_vars
  /\ [][cpc' = "Stopped" => (cpc = "Stopped" \/ Interrupt)]_vars

\* after a message that was not JSON the socket is closed and the client
\* is connecting again
C22_Witness ==
  /\ cpc = "Connecting"
  /\ cause = "notjson"
  /\ ~sockOpen
  /\ sent = <<Msg("ready", 0)>>

\* C33: every progress message sent to the gateway carries the id of the job
\* whose backend execution produced the event: the relay started for job j
\* tags what it sends with j, never with the id of a later job, also while it
\* is still running when that job is received.
C33_ProgressTaggedWithOwnJob ==
  [][\A j \in 1..MaxMessages :
       (RelayProgress(j) /\ sent' # sent) => sent'[Len(sent')].job = j]_vars

\* What does hold: a relay tags its message with the job the main loop
\* received last, which is its own job or a later one.
ProgressTaggedWithLatestJob ==
  [][\A j \in 1..MaxMessages :
       (RelayProgress(j) /\ sent' # sent)
         => (sent'[Len(sent')].job = job_id /\ j <= job_id)]_vars

\* C34: for every job, no progress message of that job is sent to the gateway
\* after the job's result message (complete or failed), and the relay thread
\* of a job does not outlive the job's result.
C34_NoProgressAfterResult ==
  /\ \A i \in 1..Len(sent) : \A k \in 1..Len(sent) :
       (/\ i < k
        /\ sent[i].type \in {"complete", "failed"}
        /\ sent[k].type = "progress")
         => sent[k].job # sent[i].job
  /\ \A i \in 1..Len(sent) :
       sent[i].type \in {"complete", "failed"} => sent[i].job \notin DOMAIN relays

\* What does hold: the progress message the main loop itself writes when it
\* receives a job precedes that job's result.
InitialProgressBeforeResult ==
  \A k \in 1..Len(sent) :
    sent[k].type \in {"complete", "failed"}
      => \E i \in 1..(k - 1) : sent[i] = Msg("progress", sent[k].job)

-----------------------------------------------------------------------------
(* Pipeline orchestrator: POST /api/pipelines/run and _run_pipeline         *)
(*                                                                         *)
(* ppc is the pipeline thread's position:                                  *)
(*   Lookup   the step's workflow and server are looked up                 *)
(*   Submit   inputs are resolved and the prompt is posted                 *)
(*   Poll     the poll loop of the step                                    *)
(*   Update   the registry update after the poll loop (PIPELINE_LOCK)      *)
(*   Check    `if not completed_flag` after the update                     *)
(*   Advance  the head of the for loop, taking the next step               *)
(*   Final    the registry update after the for loop (PIPELINE_LOCK)       *)
(*   Done     the thread returned                                          *)
(*   Dead     an exception of _process_outputs ended the thread            *)
(***************************************************************************)

\* steps of one pipeline request
MaxSteps == 3
\* stands for the 240 iterations of a step's poll loop
StepPollBudget == 2

Prev == "__prev__"

StepKinds == [wf : {"ok", "nowf", "nosrv"}, input : {Prev, "in.png"}]

RECURSIVE SeqsUpTo(_, _)
\* the sequences over S of length at most n
SeqsUpTo(S, n) ==
  IF n = 0 THEN {<<>>}
  ELSE LET shorter == SeqsUpTo(S, n - 1)
       IN  shorter \cup {Append(q, x) : q \in shorter, x \in S}

\* the first item _extract_outputs finds in a history record: none (NoItem),
\* or a file of the step with or without a subfolder
FileOf(k) == "s" \o ToString(k) \o ".png"
NoItem == [subfolder |-> "", filename |-> ""]
FirstOutputs(k) ==
  {NoItem} \cup {[subfolder |-> sub, filename |-> FileOf(k)] : sub \in {"", "out"}}

\* prev_output = f"{sub}/{filename}" if sub else filename
OutRef(first) ==
  IF first.subfolder # "" THEN first.subfolder \o "/" \o first.filename
  ELSE first.filename

\* if val == "__prev__" and prev_output: inputs[key] = prev_output
ResolveInput(val, prev) == IF val = Prev /\ prev # None THEN prev ELSE val

\* pipeline["currentStep"] = idx + 1
CurrentStepOffByOne(i) == i + 2
CurrentStepAfter(i) == i + 1

\* "complete" if len(completed) == len(steps) else "error"
FinalStatus(done, all) == IF Len(done) = Len(all) THEN "complete" ELSE "error"

\* `break` after a step that failed: the for loop is left
OnStepFailureContinue == "Advance"
OnStepFailure == "Final"

Entry(i, st, ref) == [stepIndex |-> i + 1, status |-> st, outputPath |-> ref]

\* handle_api_post: the record is registered and the thread started
PipeInit ==
  /\ steps \in SeqsUpTo(StepKinds, MaxSteps)
  /\ ppc = IF steps = <<>> THEN "Final" ELSE "Lookup"
  /\ idx = 0
  /\ prevOutput = None
  /\ completed = <<>>
  /\ pipeline = [status |-> "running", currentStep |-> 0, aliased |-> FALSE]
  /\ ppolls = 0
  /\ completedFlag = FALSE
  /\ submitted = <<>>
  /\ firstOut = <<>>

\* the completed list a status poller finds in the registry record: the
\* record's own empty list, or the thread's list once it was assigned
VisibleCompleted == IF pipeline.aliased THEN completed ELSE <<>>

StepLookup ==
  /\ ppc = "Lookup"
  /\ IF steps[idx + 1].wf = "ok"
     THEN /\ ppc' = "Submit"
          /\ UNCHANGED completed
     ELSE /\ completed' = Append(completed, Entry(idx, "error", None))
          /\ ppc' = OnStepFailure
  /\ UNCHANGED <<steps, idx, prevOutput, pipeline, ppolls, completedFlag,
                 submitted, firstOut>>
  /\ UNCHANGED <<frameVars, connVars, batchVars, jobVars, createVars, lockVars, trackVars, ioVars>>

\* the "__prev__" inputs are resolved, the prompt is posted
StepSubmit ==
  /\ ppc = "Submit"
  /\ submitted' = Append(submitted,
        [step |-> idx + 1, value |-> ResolveInput(steps[idx + 1].input, prevOutput)])
  /\ \E resp \in {"id", "noid", "error"} :
       IF resp = "id"
       THEN /\ ppc' = "Poll"
            /\ ppolls' = 0
            /\ completedFlag' = FALSE
            /\ UNCHANGED completed
       ELSE /\ completed' = Append(completed, Entry(idx, "error", None))
            /\ ppc' = OnStepFailure
            /\ UNCHANGED <<ppolls, completedFlag>>
  /\ UNCHANGED <<steps, idx, prevOutput, pipeline, firstOut>>
  /\ UNCHANGED <<frameVars, connVars, batchVars, jobVars, createVars, lockVars, trackVars, ioVars>>

\* one iteration of the poll loop that does not find the step completed:
\* the request failed, or the history has no completed entry yet
StepPollPending ==
  /\ ppc = "Poll"
  /\ ppolls < StepPollBudget
  /\ ppolls' = ppolls + 1
  /\ UNCHANGED <<ppc, steps, idx, prevOutput, completed, pipeline, completedFlag,
                 submitted, firstOut>>
  /\ UNCHANGED <<frameVars, connVars, batchVars, jobVars, createVars, lockVars, trackVars, ioVars>>

\* one iteration that finds the step completed: prev_output is set from the
\* first output item when there is one, _process_outputs downloads the items
\* (and may raise when there is one), the entry is appended
StepPollCompleted ==
  /\ ppc = "Poll"
  /\ ppolls < StepPollBudget
  /\ ppolls' = ppolls + 1
  /\ \E first \in FirstOutputs(idx + 1), downloads \in BOOLEAN :
       LET ref == IF first = NoItem THEN prevOutput ELSE OutRef(first) IN
       /\ first = NoItem => downloads
       /\ prevOutput' = ref
       /\ firstOut' = Append(firstOut, IF first = NoItem THEN None ELSE OutRef(first))
       /\ IF downloads
          THEN /\ completed' = Append(completed, Entry(idx, "complete", ref))
               /\ completedFlag' = TRUE
               /\ ppc' = "Update"
          ELSE /\ ppc' = "Dead"
               /\ UNCHANGED <<completed, completedFlag>>
  /\ UNCHANGED <<steps, idx, pipeline, submitted>>
  /\ UNCHANGED <<frameVars, connVars, batchVars, jobVars, createVars, lockVars, trackVars, ioVars>>

\* the poll loop ran out
StepPollExhausted ==
  /\ ppc = "Poll"
  /\ ppolls = StepPollBudget
  /\ ppc' = "Update"
  /\ UNCHANGED <<steps, idx, prevOutput, completed, pipeline, ppolls,
                 completedFlag, submitted, firstOut>>
  /\ UNCHANGED <<frameVars, connVars, batchVars, jobVars, createVars, lockVars, trackVars, ioVars>>

\* with PIPELINE_LOCK: currentStep and completed of the record
StepUpdate ==
  /\ ppc = "Update"
  /\ pipeline' = [pipeline EXCEPT !.currentStep = CurrentStepAfter(idx),
                                  !.aliased = TRUE]
  /\ ppc' = "Check"
  /\ UNCHANGED <<steps, idx, prevOutput, completed, ppolls, completedFlag,
                 submitted, firstOut>>
  /\ UNCHANGED <<frameVars, connVars, batchVars, jobVars, createVars, lockVars, trackVars, ioVars>>

\* if not completed_flag: the timeout entry is appended and the loop left
StepCheck ==
  /\ ppc = "Check"
  /\ IF completedFlag
     THEN /\ ppc' = "Advance"
          /\ UNCHANGED completed
     ELSE /\ completed' = Append(completed, Entry(idx, "timeout", None))
          /\ ppc' = OnStepFailure
  /\ UNCHANGED <<steps, idx, prevOutput, pipeline, ppolls, completedFlag,
                 submitted, firstOut>>
  /\ UNCHANGED <<frameVars, connVars, batchVars, jobVars, createVars, lockVars, trackVars, ioVars>>

\* the for loop takes the next step, or ends
StepAdvance ==
  /\ ppc = "Advance"
  /\ IF idx + 1 < Len(steps)
     THEN /\ idx' = idx + 1
          /\ ppc' = "Lookup"
     ELSE /\ ppc' = "Final"
          /\ UNCHANGED idx
  /\ UNCHANGED <<steps, prevOutput, completed, pipeline, ppolls, completedFlag,
                 submitted, firstOut>>
  /\ UNCHANGED <<frameVars, connVars, batchVars, jobVars, createVars, lockVars, trackVars, ioVars>>

\* with PIPELINE_LOCK: the final status and completed of the record
Finalize ==
  /\ ppc = "Final"
  /\ pipeline' = [pipeline EXCEPT !.status = FinalStatus(completed, steps),
                                  !.aliased = TRUE]
  /\ ppc' = "Done"
  /\ UNCHANGED <<steps, idx, prevOutput, completed, ppolls, completedFlag,
                 submitted, firstOut>>
  /\ UNCHANGED <<frameVars, connVars, batchVars, jobVars, createVars, lockVars, trackVars, ioVars>>

NextPipe ==
  \/ StepLookup \/ StepSubmit \/ StepPollPending \/ StepPollCompleted
  \/ StepPollExhausted \/ StepUpdate \/ StepCheck \/ StepAdvance \/ Finalize

InitPipe == PipeInit /\ FrameIdle /\ ConnIdle /\ BatchIdle /\ JobIdle /\ CreateIdle /\ LockIdle /\ TrackIdle /\ IoIdle

SpecPipe == InitPipe /\ [][NextPipe]_vars

\* The pipeline thread is a started daemon thread that nothing suspends: a
\* step of it that stays possible is eventually taken.
SpecPipeLive == SpecPipe /\ WF_vars(NextPipe)

-----------------------------------------------------------------------------
(* Claims about the pipeline orchestrator *)

Entries(list) == {list[i] : i \in 1..Len(list)}
FailedEntries == {e \in Entries(completed) : e.status # "complete"}

\* C4: a pipeline's final status is complete only if every one of its steps
\* reached status complete; if any step ended in error or timeout (the last
\* step and the only step of a one-step pipeline included) it is error.
C4_CompleteOnlyIfAllComplete ==
  /\ pipeline.status = "complete" =>
       /\ Len(completed) = Len(steps)
       /\ FailedEntries = {}
  /\ (ppc = "Done" /\ FailedEntries # {}) => pipeline.status = "error"

\* C5: pipeline steps are submitted strictly in list order, and after a step
\* failed no later step of the pipeline is ever submitted to the backend.
C5_InOrderNoneAfterFailure ==
  /\ Len(submitted) <= Len(steps)
  /\ \A i \in 1..Len(submitted) : submitted[i].step = i
  /\ \A e \in FailedEntries : \A i \in 1..Len(submitted) :
       submitted[i].step <= e.stepIndex

C5_Witness ==
  /\ ppc = "Done"
  /\ Len(submitted) = 2
  /\ Len(steps) = 3
  /\ \E e \in FailedEntries : e.stepIndex = 2

\* C6: currentStep of a pipeline record never decreases and never exceeds
\* the number of steps; status only moves from running to complete or to
\* error, and once complete or error it never changes again.
C6_MonotoneRecord ==
  [][/\ pipeline'.currentStep >= pipeline.currentStep
     /\ pipeline'.currentStep <= Len(steps)
     /\ pipeline'.status \in {"running", "complete", "error"}
     /\ (pipeline.status # "running") => pipeline'.status = pipeline.status]_vars

C6_Witness ==
  /\ pipeline.status = "error"
  /\ pipeline.currentStep >= 2

\* C7: for every step k > 1 and every input of it whose value is "__prev__",
\* the value submitted is the first output reference of step k-1 itself
\* (subfolder/filename, or the bare filename); it is never an output of a
\* step earlier than k-1.
C7_PrevIsPreviousStep ==
  \A i \in 1..Len(submitted) :
    LET k == submitted[i].step IN
    (k > 1 /\ steps[k].input = Prev) =>
      /\ firstOut[k - 1] # None => submitted[i].value = firstOut[k - 1]
      /\ \A j \in 1..(k - 2) : firstOut[j] # None => submitted[i].value # firstOut[j]

\* What does hold of chaining: a "__prev__" input is submitted as the most
\* recent first output reference that any earlier step reported
ChainsToLatestOutput ==
  \A i \in 1..Len(submitted) :
    LET k == submitted[i].step IN
    (k > 1 /\ steps[k].input = Prev /\ firstOut[k - 1] # None) =>
      submitted[i].value = firstOut[k - 1]

\* C32: the literal token "__prev__" is never submitted to the backend as an
\* input value: every input that was "__prev__" in the step definition is
\* submitted as an output reference, also in the first step and when the
\* previous step produced no output item.
C32_PrevTokenNeverSubmitted ==
  \A i \in 1..Len(submitted) :
    /\ submitted[i].value # "__prev__"
    /\ steps[submitted[i].step].input = "__prev__"
         => \E j \in 1..Len(firstOut) : submitted[i].value = firstOut[j]

\* What does hold: the token is submitted only where no earlier step has
\* reported an output item, and is replaced wherever one has.
PrevTokenOnlyWithoutOutput ==
  \A i \in 1..Len(submitted) :
    LET k == submitted[i].step IN
    steps[k].input = "__prev__" =>
      (submitted[i].value = "__prev__"
         <=> \A j \in 1..(k - 1) : firstOut[j] = "None")

\* C31: every pipeline run eventually leaves status running: whenever each
\* backend call returns or fails within its timeout, the status eventually
\* becomes complete or error, also when the download of a completed step's
\* output fails with an HTTP error.
C31_PipelineLeavesRunning == <>(pipeline.status \in {"complete", "error"})

\* What does hold: the status leaves running unless a download of
\* _process_outputs raised in the pipeline thread.
LeavesRunningUnlessDownloadRaised ==
  <>(pipeline.status \in {"complete", "error"} \/ ppc = "Dead")

-----------------------------------------------------------------------------
(* Batch orchestrator: POST /api/batch, _run_batch, and the status handler  *)
(* GET /api/workflows/{id}/status/{promptId} with _process_outputs          *)
(*                                                                         *)
(* The backend gives the run of index i the prompt id i (prompt ids are     *)
(* fresh).  gallery.json is kept as, per prompt id, the state of the first  *)
(* record with that promptId, the one `existing` finds:                     *)
(*   absent    no record                                                   *)
(*   queued    the record _run_batch appended (batchId, empty outputPath)   *)
(*   done      that record after existing.update(record): outputPath set    *)
(*   unbatched a record _process_outputs appended itself: no batchId        *)
(* ensure_gallery reads the whole file and save_gallery rewrites it from    *)
(* the caller's copy.                                                      *)
(*                                                                         *)
(* bpc is the batch thread's position in the iteration of run bidx:         *)
(*   Submit, SetId (run["promptId"] = ...), SetQueued (run["status"] =      *)
(*   "queued"), GalleryLoad, GallerySave; then Final (BATCH_LOCK) and Done. *)
(***************************************************************************)

\* variations of one batch request
MaxRuns == 2
\* status requests in progress at the same time
MaxPollers == 1
\* output items of one history entry
MaxItems == 2

Pollers == 1..MaxPollers

IdlePoller == [pc |-> "idle", pid |-> 0, gal |-> <<>>, left |-> 0]

\* all(r.get("status") == "complete" for r in batch.get("runs", []))
AnyRunComplete(rs) == \E i \in 1..Len(rs) : rs[i].status = "complete"
AllRunsComplete(rs) == \A i \in 1..Len(rs) : rs[i].status = "complete"

\* for run in batch["runs"]: if run["promptId"] == prompt_id: status = complete
MarkComplete(rs, pid) ==
  [i \in 1..Len(rs) |->
     IF rs[i].promptId = pid THEN [rs[i] EXCEPT !.status = "complete"] ELSE rs[i]]

\* gallery["outputs"].append(record) as seen by a later lookup by promptId:
\* the first record of a prompt id stays the one found
AppendRecord(gal, pid, rec) ==
  IF gal[pid] = "absent" THEN [gal EXCEPT ![pid] = rec] ELSE gal

\* handle_api_post: the runs are built, the batch registered, the thread started
BatchInit ==
  /\ \E n \in 1..MaxRuns :
       /\ runs = [i \in 1..n |-> [promptId |-> 0, status |-> "queued"]]
       /\ galleryFile = [i \in 1..n |-> "absent"]
  /\ bstatus = "running"
  /\ bpc = "Submit"
  /\ bidx = 1
  /\ bLocal = <<>>
  /\ pollers = [p \in Pollers |-> IdlePoller]

\* the for loop of _run_batch takes the next run, or ends
NextRun ==
  IF bidx < Len(runs)
  THEN bidx' = bidx + 1 /\ bpc' = "Submit"
  ELSE bpc' = "Final" /\ UNCHANGED bidx

\* the prompt of the run is built and posted
BatchSubmit ==
  /\ bpc = "Submit"
  /\ \E resp \in {"id", "noid", "error"} :
       IF resp = "id"
       THEN /\ bpc' = "SetId"
            /\ UNCHANGED <<bidx, runs>>
       ELSE /\ runs' = [runs EXCEPT ![bidx].status = "error"]
            /\ NextRun
  /\ UNCHANGED <<bstatus, galleryFile, bLocal, pollers>>
  /\ UNCHANGED <<frameVars, connVars, pipeVars, jobVars, createVars, lockVars, trackVars, ioVars>>

\* run["promptId"] = prompt_id
BatchSetId ==
  /\ bpc = "SetId"
  /\ runs' = [runs EXCEPT ![bidx].promptId = bidx]
  /\ bpc' = "SetQueued"
  /\ UNCHANGED <<bidx, bstatus, galleryFile, bLocal, pollers>>
  /\ UNCHANGED <<frameVars, connVars, pipeVars, jobVars, createVars, lockVars, trackVars, ioVars>>

\* run["status"] = "queued"
BatchSetQueued ==
  /\ bpc = "SetQueued"
  /\ runs' = [runs EXCEPT ![bidx].status = "queued"]
  /\ bpc' = "GalleryLoad"
  /\ UNCHANGED <<bidx, bstatus, galleryFile, bLocal, pollers>>
  /\ UNCHANGED <<frameVars, connVars, pipeVars, jobVars, createVars, lockVars, trackVars, ioVars>>

\* gallery = ensure_gallery()
BatchGalleryLoad ==
  /\ bpc = "GalleryLoad"
  /\ bLocal' = galleryFile
  /\ bpc' = "GallerySave"
  /\ UNCHANGED <<bidx, runs, bstatus, galleryFile, pollers>>
  /\ UNCHANGED <<frameVars, connVars, pipeVars, jobVars, createVars, lockVars, trackVars, ioVars>>

\* the queued record is appended and save_gallery(gallery) rewrites the file
BatchGallerySave ==
  /\ bpc = "GallerySave"
  /\ galleryFile' = AppendRecord(bLocal, bidx, "queued")
  /\ bLocal' = <<>>
  /\ NextRun
  /\ UNCHANGED <<runs, bstatus, pollers>>
  /\ UNCHANGED <<frameVars, connVars, pipeVars, jobVars, createVars, lockVars, trackVars, ioVars>>

\* after the loop, with BATCH_LOCK: BATCHES[batch_id]["status"] = "queued"
BatchFinal ==
  /\ bpc = "Final"
  /\ bstatus' = "queued"
  /\ bpc' = "Done"
  /\ UNCHANGED <<bidx, runs, galleryFile, bLocal, pollers>>
  /\ UNCHANGED <<frameVars, connVars, pipeVars, jobVars, createVars, lockVars, trackVars, ioVars>>

\* a status request for a prompt id a run shows: the history has the prompt
\* with n output items; _process_outputs loads the gallery and returns at
\* once when the record found has an outputPath or when there are no items
PollBegin(p) ==
  /\ pollers[p].pc = "idle"
  /\ \E pid \in 1..Len(runs), n \in 0..MaxItems :
       /\ runs[pid].promptId = pid
       /\ IF galleryFile[pid] \in {"done", "unbatched"} \/ n = 0
          THEN UNCHANGED pollers
          ELSE pollers' = [pollers EXCEPT ![p] =
                 [pc |-> "items", pid |-> pid, gal |-> galleryFile, left |-> n]]
  /\ UNCHANGED <<bpc, bidx, runs, bstatus, galleryFile, bLocal>>
  /\ UNCHANGED <<frameVars, connVars, pipeVars, jobVars, createVars, lockVars, trackVars, ioVars>>

\* one iteration of `for item in output_items`: the download, the record,
\* and for a record with a batchId the update of the batch with BATCH_LOCK
PollItem(p) ==
  /\ pollers[p].pc = "items"
  /\ LET me == pollers[p]
         existing == me.gal[me.pid]
         batched == existing \in {"queued", "done"}
     IN
     \E downloads \in BOOLEAN :
       IF ~downloads
       THEN /\ pollers' = [pollers EXCEPT ![p] = IdlePoller]
            /\ UNCHANGED <<runs, bstatus>>
       ELSE /\ pollers' = [pollers EXCEPT ![p] =
                 [me EXCEPT !.gal = IF batched THEN [me.gal EXCEPT ![me.pid] = "done"]
                                   ELSE AppendRecord(me.gal, me.pid, "unbatched"),
                            !.left = me.left - 1,
                            !.pc = IF me.left = 1 THEN "save" ELSE "items"]]
            /\ IF batched
               THEN /\ runs' = MarkComplete(runs, me.pid)
                    /\ bstatus' = IF AllRunsComplete(MarkComplete(runs, me.pid))
                                  THEN "complete" ELSE bstatus
               ELSE UNCHANGED <<runs, bstatus>>
  /\ UNCHANGED <<bpc, bidx, galleryFile, bLocal>>
  /\ UNCHANGED <<frameVars, connVars, pipeVars, jobVars, createVars, lockVars, trackVars, ioVars>>

\* save_gallery(gallery) at the end of _process_outputs
PollSave(p) ==
  /\ pollers[p].pc = "save"
  /\ galleryFile' = pollers[p].gal
  /\ pollers' = [pollers EXCEPT ![p] = IdlePoller]
  /\ UNCHANGED <<bpc, bidx, runs, bstatus, bLocal>>
  /\ UNCHANGED <<frameVars, connVars, pipeVars, jobVars, createVars, lockVars, trackVars, ioVars>>

NextBatch ==
  \/ BatchSubmit \/ BatchSetId \/ BatchSetQueued \/ BatchGalleryLoad
  \/ BatchGallerySave \/ BatchFinal
  \/ \E p \in Pollers : PollBegin(p)
  \/ \E p \in Pollers : PollItem(p)
  \/ \E p \in Pollers : PollSave(p)

InitBatch == BatchInit /\ FrameIdle /\ ConnIdle /\ PipeIdle /\ JobIdle /\ CreateIdle /\ LockIdle /\ TrackIdle /\ IoIdle

SpecBatch == InitBatch /\ [][NextBatch]_vars

-----------------------------------------------------------------------------
(* Claims about the batch orchestrator *)

\* C8: in every reachable state a batch whose status is complete has every
\* one of its runs in status complete; a batch containing a run in status
\* error never has status complete.
C8_CompleteMeansAllRunsComplete ==
  /\ bstatus = "complete" => \A i \in 1..Len(runs) : runs[i].status = "complete"
  /\ (\E i \in 1..Len(runs) : runs[i].status = "error") => bstatus # "complete"

C8_Witness ==
  /\ bstatus = "complete"
  /\ Len(runs) >= 2

\* C9: under every interleaving of _run_batch with status pollers, once the
\* last run has been marked complete the batch status is complete, and it is
\* never afterwards overwritten with a non-complete value such as queued.
C9_CompleteStays ==
  /\ [](AllRunsComplete(runs) => bstatus = "complete")
  /\ [][bstatus = "complete" => bstatus' = "complete"]_vars

-----------------------------------------------------------------------------
(* execute_job's data: the graph it posts, the seeds it resolves and the    *)
(* type it gives the output.                                                *)
(*                                                                         *)
(* jpc is the position in execute_job:                                     *)
(*   Build     deep copy of the graph, the inputs applied as overrides     *)
(*   Resolve   the seed loop                                               *)
(*   Post      POST /prompt                                                *)
(*   Await     the poll loop, up to the download of the first output       *)
(*   Returned  the complete result was returned                            *)
(***************************************************************************)

\* overrides one job carries
MaxOverrides == 1

\* JSON values of the kinds the sampled fields hold: integers and strings
IntVal(n) == [kind |-> "int", num |-> n, text |-> ""]
StrVal(t) == [kind |-> "str", num |-> 0, text |-> t]

\* (-1, 0, "-1", "0")
SentinelsIntOnly == {IntVal(-1), IntVal(0)}
Sentinels == {IntVal(-1), IntVal(0), StrVal("-1"), StrVal("0")}

\* the two field names the seed loop looks at
SeedNames == {"seed", "noise_seed"}

\* random.randint(1, 2**32 - 1): the low end of the range and 2**31 - 1,
\* a large value of it
BigSeed == 2147483647
Draws == {1, BigSeed}

\* a key of inputs as key.split(".", 1) sees it, and a key without a dot
Key(n, f) == [dotted |-> TRUE, node |-> n, field |-> f]
BareKey(f) == [dotted |-> FALSE, node |-> "", field |-> f]

\* f"{node_id}.seed", f"{node_id}.noise_seed"
KeyText(n, f) == n \o "." \o f

\* the graphs sampled: node 3 with or without a seed, node 7 with a seed and
\* a noise_seed
TemplateValues == {IntVal(0), IntVal(42)}

Templates ==
  { ("3" :> n3) @@ ("7" :> n7) :
      n3 \in {[steps |-> IntVal(20)]}
               \cup {[seed |-> a, steps |-> IntVal(20)] : a \in TemplateValues},
      n7 \in {[seed |-> b, noise_seed |-> c] : b \in TemplateValues, c \in TemplateValues} }

\* the keys sampled: fields of the graph, a field the node does not have, a
\* node the graph does not have, a key without a dot
InputKeys ==
  {Key("3", "seed"), Key("3", "steps"), Key("3", "noise_seed"), Key("7", "seed"),
   Key("7", "noise_seed"), Key("9", "seed"), BareKey("seed")}

InputValues ==
  {IntVal(-1), IntVal(0), StrVal("-1"), StrVal("0"), IntVal(42), StrVal("x")}

JobInputs ==
  UNION { [ks -> InputValues] : ks \in {k \in SUBSET InputKeys : Cardinality(k) <= MaxOverrides} }

\* lines 1319-1324: every key with a dot whose node is in the graph sets the
\* field of that node
ApplyInputs(p, ins) ==
  [n \in DOMAIN p |->
     LET over == {k \in DOMAIN ins : k.dotted /\ k.node = n}
         fields == DOMAIN p[n] \cup {k.field : k \in over}
     IN  [f \in fields |-> IF Key(n, f) \in over THEN ins[Key(n, f)] ELSE p[n][f]]]

\* the fields the seed loop replaces: seed and noise_seed holding a sentinel
ToResolve(p) ==
  {s \in (DOMAIN p) \X SeedNames : s[2] \in DOMAIN p[s[1]] /\ p[s[1]][s[2]] \in Sentinels}

\* the graph after the seed loop, d[s] being the value drawn for the field s
Resolved(p, d) ==
  [n \in DOMAIN p |->
     [f \in DOMAIN p[n] |-> IF <<n, f>> \in DOMAIN d THEN IntVal(d[<<n, f>>]) ELSE p[n][f]]]

\* resolved_seeds after the seed loop
ResolvedSeeds(d) ==
  [k \in {KeyText(s[1], s[2]) : s \in DOMAIN d} |->
     d[CHOOSE s \in DOMAIN d : KeyText(s[1], s[2]) = k]]

\* file names, as the sequences of their characters
Filenames ==
  { <<"a", ".", "p", "n", "g">>, <<"a", ".", "P", "N", "G">>,
    <<"a", ".", "j", "p", "g">>, <<"a", ".", "j", "p", "e", "g">>,
    <<"a", ".", "w", "e", "b", "p">>, <<"a", ".", "m", "p", "4">>,
    <<"a", ".", "g", "i", "f">>, <<"a", ".", "w", "e", "b", "m">>,
    <<"a", ".", "b", ".", "g", "i", "f">>, <<".", "g", "i", "f">>, <<"a">> }

\* str.lower on the characters sampled
Lower(c) ==
  CASE c = "P" -> "p" [] c = "N" -> "n" [] c = "G" -> "g" [] OTHER -> c

\* os.path.splitext(filename)[1].lower(): from the last dot on, unless only
\* dots come before it
LowerExt(f) ==
  LET dots == {i \in 1..Len(f) : f[i] = "."} IN
  IF dots = {} THEN <<>>
  ELSE LET last == CHOOSE i \in dots : \A j \in dots : j <= i IN
       IF \A j \in 1..last : f[j] = "." THEN <<>>
       ELSE [i \in 1..(Len(f) - last + 1) |-> Lower(f[last + i - 1])]

\* lines 1396-1401
OutputType(f) ==
  LET ext == LowerExt(f) IN
  IF ext \in {<<".", "j", "p", "g">>, <<".", "j", "p", "e", "g">>} THEN "image/jpeg"
  ELSE IF ext = <<".", "w", "e", "b", "p">> THEN "image/webp"
  ELSE IF ext = <<".", "m", "p", "4">> THEN "video/mp4"
  ELSE IF ext = <<".", "g", "i", "f">> THEN "image/gif"
  ELSE "image/png"

JobInit ==
  /\ jpc = "Build"
  /\ template \in Templates
  /\ inputs \in JobInputs
  /\ prompt = <<>>
  /\ resolved_seeds = <<>>
  /\ posted = <<>>
  /\ filename = <<>>
  /\ output_type = ""
  /\ later = FALSE

\* What the stored workflowJson holds once the job's graph has become p: had
\* the job edited the stored dict itself, the stored graph would be p
StoredAfterInPlace(stored, p) == p

\* What the stored workflowJson holds once the job's graph has become p:
\* prompt = copy.deepcopy(prompt) gave the job a graph that shares no dict
\* with the stored one
StoredAfter(stored, p) == stored

\* copy.deepcopy of the graph, then the overrides
BuildPrompt ==
  /\ jpc = "Build"
  /\ prompt' = ApplyInputs(template, inputs)
  /\ template' = StoredAfter(template, prompt')
  /\ jpc' = "Resolve"
  /\ UNCHANGED <<inputs, resolved_seeds, posted, filename, output_type, later>>
  /\ UNCHANGED <<frameVars, connVars, pipeVars, batchVars, createVars, lockVars, trackVars, ioVars>>

\* the seed loop: one random.randint per field that holds a sentinel
ResolveSeedFields ==
  /\ jpc = "Resolve"
  /\ \E d \in [ToResolve(prompt) -> Draws] :
       /\ prompt' = Resolved(prompt, d)
       /\ resolved_seeds' = ResolvedSeeds(d)
  /\ template' = StoredAfter(template, prompt')
  /\ jpc' = "Post"
  /\ UNCHANGED <<inputs, posted, filename, output_type, later>>
  /\ UNCHANGED <<frameVars, connVars, pipeVars, batchVars, createVars, lockVars, trackVars, ioVars>>

\* json.dumps({"prompt": prompt}) is posted
PostPrompt ==
  /\ jpc = "Post"
  /\ posted' = prompt
  /\ jpc' = "Await"
  /\ UNCHANGED <<template, inputs, prompt, resolved_seeds, filename, output_type,
                 later>>
  /\ UNCHANGED <<frameVars, connVars, pipeVars, batchVars, createVars, lockVars, trackVars, ioVars>>

\* the backend reports the job completed, the first output item with a file
\* name is downloaded and its type is taken from the name
ClassifyOutput ==
  /\ jpc = "Await"
  /\ \E f \in Filenames :
       /\ filename' = f
       /\ output_type' = OutputType(f)
  /\ jpc' = "Returned"
  /\ UNCHANGED <<template, inputs, prompt, resolved_seeds, posted, later>>
  /\ UNCHANGED <<frameVars, connVars, pipeVars, batchVars, createVars, lockVars, trackVars, ioVars>>

\* the inputs sampled for a later job of the same workflow: those of the job
\* before it, or none
LaterInputs(ins) == {ins, <<>>}

\* The main loop's next job message names the same workflow: execute_job
\* starts again with its locals fresh and finds the workflow in `data`.
ExecuteAgain ==
  /\ jpc = "Returned"
  /\ inputs' \in LaterInputs(inputs)
  /\ prompt' = <<>>
  /\ resolved_seeds' = <<>>
  /\ posted' = <<>>
  /\ filename' = <<>>
  /\ output_type' = ""
  /\ later' = TRUE
  /\ jpc' = "Build"
  /\ UNCHANGED template
  /\ UNCHANGED <<frameVars, connVars, pipeVars, batchVars, createVars, lockVars, trackVars, ioVars>>

NextJobData ==
  BuildPrompt \/ ResolveSeedFields \/ PostPrompt \/ ClassifyOutput \/ ExecuteAgain

InitJob == JobInit /\ FrameIdle /\ ConnIdle /\ PipeIdle /\ BatchIdle /\ CreateIdle /\ LockIdle /\ TrackIdle /\ IoIdle

SpecJob == InitJob /\ [][NextJobData]_vars

-----------------------------------------------------------------------------
(* Claims about execute_job's data *)

\* the fields of the graph with the job's overrides applied
Applied == ApplyInputs(template, inputs)

\* C14: for every node field named seed or noise_seed whose value after
\* applying the job's input overrides is one of -1, 0, "-1", "0", the submitted
\* graph holds a positive integer in that field and resolvedSeeds maps
\* nodeId.field to that same integer; resolvedSeeds has no entry for any field
\* whose value was not a sentinel, and such fields are submitted unchanged.
C14_SeedSentinelsResolved ==
  jpc \in {"Await", "Returned"} =>
    /\ DOMAIN posted = DOMAIN Applied
    /\ \A n \in DOMAIN Applied :
         /\ DOMAIN posted[n] = DOMAIN Applied[n]
         /\ \A f \in DOMAIN Applied[n] :
              IF f \in {"seed", "noise_seed"}
                 /\ Applied[n][f] \in {IntVal(-1), IntVal(0), StrVal("-1"), StrVal("0")}
              THEN /\ posted[n][f].kind = "int"
                   /\ posted[n][f].num > 0
                   /\ KeyText(n, f) \in DOMAIN resolved_seeds
                   /\ resolved_seeds[KeyText(n, f)] = posted[n][f].num
              ELSE /\ posted[n][f] = Applied[n][f]
                   /\ KeyText(n, f) \notin DOMAIN resolved_seeds
    /\ \A k \in DOMAIN resolved_seeds :
         \E n \in DOMAIN Applied : \E f \in DOMAIN Applied[n] : k = KeyText(n, f)

\* a string sentinel that came in as an override was resolved, next to a
\* seed that was left alone
C14_Witness ==
  /\ jpc = "Await"
  /\ Key("3", "seed") \in DOMAIN inputs
  /\ inputs[Key("3", "seed")] = StrVal("-1")
  /\ resolved_seeds["3.seed"] = BigSeed
  /\ posted["7"]["seed"] = IntVal(42)
  /\ "7.seed" \notin DOMAIN resolved_seeds

\* the type the extension ext stands for, every other extension being
\* application/octet-stream
TypeOfExtension(ext) ==
  CASE ext = <<".", "p", "n", "g">> -> "image/png"
    [] ext \in {<<".", "j", "p", "g">>, <<".", "j", "p", "e", "g">>} -> "image/jpeg"
    [] ext = <<".", "w", "e", "b", "p">> -> "image/webp"
    [] ext = <<".", "m", "p", "4">> -> "video/mp4"
    [] ext = <<".", "g", "i", "f">> -> "image/gif"
    [] OTHER -> "application/octet-stream"

\* C19: the job executor classifies the output MIME type from the file
\* extension: .png gives image/png, .jpg/.jpeg image/jpeg, .webp image/webp,
\* .mp4 video/mp4, .gif image/gif, and every other extension gives
\* application/octet-stream.
C19_MimeByExtension ==
  jpc = "Returned" => output_type = TypeOfExtension(LowerExt(filename))

\* What does hold: the five named kinds get their type, in either case of
\* the letters
NamedExtensionsClassified ==
  (jpc = "Returned" /\ TypeOfExtension(LowerExt(filename)) # "application/octet-stream")
    => output_type = TypeOfExtension(LowerExt(filename))

-----------------------------------------------------------------------------
(* POST /api/batch: the request handler builds the runs of a new batch.     *)
(*                                                                         *)
(* hpc is the handler's position:                                          *)
(*   Lookup      the workflow and its server are looked up                 *)
(*   Runs        the loop that builds the runs                             *)
(*   Registered  the batch is in BATCHES and its thread is started         *)
(*   Rejected    the 404 or 400 response was sent                          *)
(***************************************************************************)

\* the largest number of variations a request asks for
MaxVariations == 2

\* of the field names sampled, those in whose lower-cased form "seed" occurs
SeedLike(f) == f \in {"seed", "noise_seed"}

\* _find_seed_fields: the (node id, field) pairs of the graph with such a name
FindSeedFields(wf) ==
  {s \in (DOMAIN wf) \X {"seed", "noise_seed", "steps"} :
     s[2] \in DOMAIN wf[s[1]] /\ SeedLike(s[2])}

\* the graphs sampled: without a seed field, with one, with three
BatchTemplates ==
  { ("3" :> [steps |-> IntVal(20)]) }
    \cup { ("3" :> [seed |-> v, steps |-> IntVal(20)]) : v \in TemplateValues }
    \cup { ("3" :> [seed |-> IntVal(42), steps |-> IntVal(20)])
             @@ ("7" :> [seed |-> IntVal(0), noise_seed |-> IntVal(42)]) }

BatchInputs ==
  { <<>>, (Key("3", "seed") :> IntVal(7)), (Key("3", "steps") :> IntVal(30)) }

\* random.randint(1, 2**31 - 1): the ends of the range and a value between
BatchDraws == {1, 2, BigSeed}

\* run_inputs when the seed is varied: dict(inputs), then every seed field is
\* set to the one value drawn for the run
VariedInputs(ins, fields, seed_value) ==
  [k \in DOMAIN ins \cup {Key(s[1], s[2]) : s \in fields} |->
     IF \E s \in fields : k = Key(s[1], s[2]) THEN IntVal(seed_value) ELSE ins[k]]

Run(i, ins, n) ==
  [index |-> i, promptId |-> None, status |-> "queued", inputs |-> ins, calls |-> n]

CreateInit ==
  /\ hpc = "Lookup"
  /\ wfJson \in BatchTemplates
  /\ vary_seed \in BOOLEAN
  /\ variations \in 0..MaxVariations
  /\ payloadInputs \in BatchInputs
  /\ newRuns = <<>>

\* the lookups, then variations = max(1, variations)
CreateLookup ==
  /\ hpc = "Lookup"
  /\ \E found \in {"ok", "nowf", "nosrv"} :
       hpc' = IF found = "ok" THEN "Runs" ELSE "Rejected"
  /\ variations' = IF variations < 1 THEN 1 ELSE variations
  /\ UNCHANGED <<wfJson, vary_seed, payloadInputs, newRuns>>
  /\ UNCHANGED <<frameVars, connVars, pipeVars, batchVars, jobVars, lockVars, trackVars, ioVars>>

\* one iteration of `for idx in range(variations)`
AddRun ==
  /\ hpc = "Runs"
  /\ Len(newRuns) < variations
  /\ LET fields == FindSeedFields(wfJson)
         i == Len(newRuns) + 1
     IN  IF vary_seed /\ fields # {}
         THEN \E seed_value \in BatchDraws :
                newRuns' = Append(newRuns, Run(i, VariedInputs(payloadInputs, fields, seed_value), 1))
         ELSE newRuns' = Append(newRuns, Run(i, payloadInputs, 0))
  /\ UNCHANGED <<hpc, wfJson, vary_seed, variations, payloadInputs>>
  /\ UNCHANGED <<frameVars, connVars, pipeVars, batchVars, jobVars, lockVars, trackVars, ioVars>>

\* BATCHES[batch_id] is set under BATCH_LOCK and the batch thread is started
Register ==
  /\ hpc = "Runs"
  /\ Len(newRuns) = variations
  /\ hpc' = "Registered"
  /\ UNCHANGED <<wfJson, vary_seed, variations, payloadInputs, newRuns>>
  /\ UNCHANGED <<frameVars, connVars, pipeVars, batchVars, jobVars, lockVars, trackVars, ioVars>>

NextCreate == CreateLookup \/ AddRun \/ Register

InitCreate == CreateInit /\ FrameIdle /\ ConnIdle /\ PipeIdle /\ BatchIdle /\ JobIdle /\ LockIdle /\ TrackIdle /\ IoIdle

SpecCreate == InitCreate /\ [][NextCreate]_vars

-----------------------------------------------------------------------------
(* Claims about batch creation *)

SeedVaried == vary_seed /\ FindSeedFields(wfJson) # {}

\* C20: batch creation with varySeed set, on a workflow with seed-like fields:
\* each of the N runs gets its own seed draw for each seed field separately,
\* so that two seed fields of one run are drawn independently of each other
\* and each run's draws are independent of the other runs' draws; the drawn
\* values are applied even when the template value of the field is not a
\* sentinel.
C20_SeedDrawnPerField ==
  (hpc = "Registered" /\ SeedVaried) =>
    \A i \in 1..Len(newRuns) :
      /\ newRuns[i].calls = Cardinality(FindSeedFields(wfJson))
      /\ \A s \in FindSeedFields(wfJson) :
           /\ Key(s[1], s[2]) \in DOMAIN newRuns[i].inputs
           /\ newRuns[i].inputs[Key(s[1], s[2])].kind = "int"
           /\ newRuns[i].inputs[Key(s[1], s[2])].num \in BatchDraws

\* What does hold: every run has one draw of its own, made whatever the other
\* runs drew, and all the seed fields of the run hold that one value, which
\* replaces the template's value, sentinel or not, when the run's inputs are
\* applied to the graph
OneDrawPerRun ==
  (hpc = "Registered" /\ SeedVaried) =>
    /\ Len(newRuns) = variations
    /\ \A i \in 1..Len(newRuns) :
         /\ newRuns[i].calls = 1
         /\ \E v \in BatchDraws :
              \A s \in FindSeedFields(wfJson) :
                /\ newRuns[i].inputs[Key(s[1], s[2])] = IntVal(v)
                /\ ApplyInputs(wfJson, newRuns[i].inputs)[s[1]][s[2]] = IntVal(v)

\* two runs of one batch with different seeds
RunsDrawApart ==
  /\ hpc = "Registered" /\ SeedVaried
  /\ Len(newRuns) = 2
  /\ newRuns[1].inputs[Key("3", "seed")] # newRuns[2].inputs[Key("3", "seed")]

-----------------------------------------------------------------------------
(* The registry locks.  PIPELINE_LOCK guards PIPELINES, BATCH_LOCK guards   *)
(* BATCHES.  The threads that take them:                                    *)
(*   pipeline     POST /api/pipelines/run (which registers the record) and  *)
(*                the thread running _run_pipeline it starts               *)
(*   batch        POST /api/batch (which registers the record) and the      *)
(*                thread running _run_batch it starts                      *)
(*   status       GET /api/workflows/{id}/status/{promptId} with            *)
(*                _process_outputs, for a prompt of the batch              *)
(*   pipeReader   GET /api/pipelines/run/{id}                               *)
(*   batchReader  GET /api/batch/{id}                                       *)
(* tpc[t] is the statement the thread t executes next.  The gallery file,   *)
(* which no lock guards, is left out here.                                  *)
(***************************************************************************)

\* iterations of a thread's loop: the steps of the pipeline, the runs of the
\* batch, the output items of the prompt
MaxRounds == 2

Locks == {"PIPELINE_LOCK", "BATCH_LOCK"}
Threads == {"pipeline", "batch", "status", "pipeReader", "batchReader"}

\* the locks the thread t holds
Holds(t) == {l \in Locks : lockOwner[l] = t}

\* leaving a `with` block
ReleaseForgotten(l) == lockOwner
Release(l) == [lockOwner EXCEPT ![l] = "free"]

\* entering `with l:` takes the thread from position `at` to position `to`
Acquire(t, l, at, to) ==
  /\ tpc[t] = at
  /\ lockOwner[l] = "free"
  /\ lockOwner' = [lockOwner EXCEPT ![l] = t]
  /\ tpc' = [tpc EXCEPT ![t] = to]
  /\ UNCHANGED <<rounds, regList, regRec, doneFlag, regRuns, regStatus, entryDone>>
  /\ UNCHANGED <<frameVars, connVars, pipeVars, batchVars, jobVars, createVars, trackVars, ioVars>>

Goto(t, to) == tpc' = [tpc EXCEPT ![t] = to]

LockInit ==
  /\ lockOwner = [l \in Locks |-> "free"]
  /\ tpc = [t \in Threads |->
              CASE t \in {"pipeline", "batch"} -> "Register"
                [] t = "status" -> "History"
                [] OTHER -> "Get"]
  /\ rounds = [t \in {"pipeline", "batch", "status"} |-> 0]
  /\ regList = 0
  /\ regRec = [status |-> "none", currentStep |-> 0, aliased |-> FALSE]
  /\ doneFlag = FALSE
  /\ regRuns = <<>>
  /\ regStatus = "none"
  /\ entryDone = FALSE

\* ---- POST /api/pipelines/run and _run_pipeline

\* with PIPELINE_LOCK: (the handler, the thread after a step, the thread at
\* the end)
PipelineEnter ==
  \/ Acquire("pipeline", "PIPELINE_LOCK", "Register", "Registering")
  \/ Acquire("pipeline", "PIPELINE_LOCK", "Update", "Updating")
  \/ Acquire("pipeline", "PIPELINE_LOCK", "Final", "Finalizing")

\* PIPELINES[pipeline_id] = pipeline, and the thread is started
PipelineRegister ==
  /\ tpc["pipeline"] = "Registering"
  /\ regRec' = [status |-> "running", currentStep |-> 0, aliased |-> FALSE]
  /\ lockOwner' = Release("PIPELINE_LOCK")
  /\ Goto("pipeline", "Lookup")
  /\ UNCHANGED <<rounds, regList, doneFlag, regRuns, regStatus, entryDone>>
  /\ UNCHANGED <<frameVars, connVars, pipeVars, batchVars, jobVars, createVars, trackVars, ioVars>>

\* the step's workflow and server are looked up; a miss appends an error
\* entry to `completed` and breaks
PipelineLookup ==
  /\ tpc["pipeline"] = "Lookup"
  /\ \E found \in BOOLEAN :
       IF found
       THEN Goto("pipeline", "Post") /\ UNCHANGED regList
       ELSE Goto("pipeline", "Final") /\ regList' = regList + 1
  /\ UNCHANGED <<lockOwner, rounds, regRec, doneFlag, regRuns, regStatus, entryDone>>
  /\ UNCHANGED <<frameVars, connVars, pipeVars, batchVars, jobVars, createVars, trackVars, ioVars>>

\* POST /prompt; a failure or a response without prompt id appends an error
\* entry and breaks
PipelinePost ==
  /\ tpc["pipeline"] = "Post"
  /\ \E ok \in BOOLEAN :
       IF ok
       THEN Goto("pipeline", "Poll") /\ doneFlag' = FALSE /\ UNCHANGED regList
       ELSE Goto("pipeline", "Final") /\ regList' = regList + 1 /\ UNCHANGED doneFlag
  /\ UNCHANGED <<lockOwner, rounds, regRec, regRuns, regStatus, entryDone>>
  /\ UNCHANGED <<frameVars, connVars, pipeVars, batchVars, jobVars, createVars, trackVars, ioVars>>

\* GET /history/{prompt_id} in the poll loop: the request fails or the
\* prompt is not completed (then time.sleep(2)), or it is completed, with
\* output items to download or without
PipelinePoll ==
  /\ tpc["pipeline"] = "Poll"
  /\ \E got \in {"pending", "items", "noitems"} :
       CASE got = "pending" ->
              Goto("pipeline", "Sleep") /\ UNCHANGED <<regList, doneFlag>>
         [] got = "items" ->
              Goto("pipeline", "Download") /\ UNCHANGED <<regList, doneFlag>>
         [] OTHER ->
              Goto("pipeline", "Update") /\ regList' = regList + 1 /\ doneFlag' = TRUE
  /\ UNCHANGED <<lockOwner, rounds, regRec, regRuns, regStatus, entryDone>>
  /\ UNCHANGED <<frameVars, connVars, pipeVars, batchVars, jobVars, createVars, trackVars, ioVars>>

\* time.sleep(2), then the next iteration, or range(240) is used up
PipelineSleep ==
  /\ tpc["pipeline"] = "Sleep"
  /\ \E more \in BOOLEAN : Goto("pipeline", IF more THEN "Poll" ELSE "Update")
  /\ UNCHANGED <<lockOwner, rounds, regList, regRec, doneFlag, regRuns, regStatus, entryDone>>
  /\ UNCHANGED <<frameVars, connVars, pipeVars, batchVars, jobVars, createVars, trackVars, ioVars>>

\* _process_outputs downloads the items (_request_raw), then the complete
\* entry is appended; a failing download ends the thread
PipelineDownload ==
  /\ tpc["pipeline"] = "Download"
  /\ \E ok \in BOOLEAN :
       IF ok
       THEN Goto("pipeline", "Update") /\ regList' = regList + 1 /\ doneFlag' = TRUE
       ELSE Goto("pipeline", "Dead") /\ UNCHANGED <<regList, doneFlag>>
  /\ UNCHANGED <<lockOwner, rounds, regRec, regRuns, regStatus, entryDone>>
  /\ UNCHANGED <<frameVars, connVars, pipeVars, batchVars, jobVars, createVars, trackVars, ioVars>>

\* pipeline["currentStep"] = idx + 1; pipeline["completed"] = completed
PipelineUpdate ==
  /\ tpc["pipeline"] = "Updating"
  /\ regRec' = [regRec EXCEPT !.currentStep = rounds["pipeline"] + 1, !.aliased = TRUE]
  /\ lockOwner' = Release("PIPELINE_LOCK")
  /\ Goto("pipeline", "Check")
  /\ UNCHANGED <<rounds, regList, doneFlag, regRuns, regStatus, entryDone>>
  /\ UNCHANGED <<frameVars, connVars, pipeVars, batchVars, jobVars, createVars, trackVars, ioVars>>

\* if not completed_flag: the timeout entry is appended and the loop left;
\* otherwise the next step, if there is one
PipelineCheck ==
  /\ tpc["pipeline"] = "Check"
  /\ IF ~doneFlag
     THEN Goto("pipeline", "Final") /\ regList' = regList + 1 /\ UNCHANGED rounds
     ELSE /\ UNCHANGED regList
          /\ IF rounds["pipeline"] + 1 < MaxRounds
             THEN /\ rounds' = [rounds EXCEPT !["pipeline"] = @ + 1]
                  /\ Goto("pipeline", "Lookup")
             ELSE Goto("pipeline", "Final") /\ UNCHANGED rounds
  /\ UNCHANGED <<lockOwner, regRec, doneFlag, regRuns, regStatus, entryDone>>
  /\ UNCHANGED <<frameVars, connVars, pipeVars, batchVars, jobVars, createVars, trackVars, ioVars>>

\* pipeline["status"] = ...; pipeline["completed"] = completed
PipelineFinalize ==
  /\ tpc["pipeline"] = "Finalizing"
  /\ regRec' = [regRec EXCEPT
                  !.status = IF regList = MaxRounds THEN "complete" ELSE "error",
                  !.aliased = TRUE]
  /\ lockOwner' = Release("PIPELINE_LOCK")
  /\ Goto("pipeline", "Done")
  /\ UNCHANGED <<rounds, regList, doneFlag, regRuns, regStatus, entryDone>>
  /\ UNCHANGED <<frameVars, connVars, pipeVars, batchVars, jobVars, createVars, trackVars, ioVars>>

\* ---- POST /api/batch and _run_batch

\* with BATCH_LOCK: (the handler, the thread after its loop)
BatchEnter ==
  \/ Acquire("batch", "BATCH_LOCK", "Register", "Registering")
  \/ Acquire("batch", "BATCH_LOCK", "Final", "Finalizing")

\* BATCHES[batch_id] = {...}, and the thread is started
BatchRegister ==
  /\ tpc["batch"] = "Registering"
  /\ regRuns' = [i \in 1..MaxRounds |-> [status |-> "queued", promptId |-> FALSE]]
  /\ regStatus' = "running"
  /\ lockOwner' = Release("BATCH_LOCK")
  /\ Goto("batch", "Post")
  /\ UNCHANGED <<rounds, regList, regRec, doneFlag, entryDone>>
  /\ UNCHANGED <<frameVars, connVars, pipeVars, batchVars, jobVars, createVars, trackVars, ioVars>>

\* `for run in runs` goes on, or ends
BatchLoop ==
  IF rounds["batch"] + 1 < MaxRounds
  THEN rounds' = [rounds EXCEPT !["batch"] = @ + 1] /\ Goto("batch", "Post")
  ELSE UNCHANGED rounds /\ Goto("batch", "Final")

\* POST /prompt for the run; on a failure or a response without prompt id
\* run["status"] = "error" and run["error"] are set
BatchPost ==
  /\ tpc["batch"] = "Post"
  /\ \E ok \in BOOLEAN :
       IF ok
       THEN Goto("batch", "SetId") /\ UNCHANGED <<rounds, regRuns>>
       ELSE /\ regRuns' = [regRuns EXCEPT ![rounds["batch"] + 1].status = "error"]
            /\ BatchLoop
  /\ UNCHANGED <<lockOwner, regList, regRec, doneFlag, regStatus, entryDone>>
  /\ UNCHANGED <<frameVars, connVars, pipeVars, batchVars, jobVars, createVars, trackVars, ioVars>>

\* run["promptId"] = prompt_id; run["status"] = "queued"
BatchSetRun ==
  /\ tpc["batch"] = "SetId"
  /\ regRuns' = [regRuns EXCEPT ![rounds["batch"] + 1] =
                   [status |-> "queued", promptId |-> TRUE]]
  /\ BatchLoop
  /\ UNCHANGED <<lockOwner, regList, regRec, doneFlag, regStatus, entryDone>>
  /\ UNCHANGED <<frameVars, connVars, pipeVars, batchVars, jobVars, createVars, trackVars, ioVars>>

\* BATCHES[batch_id]["status"] = "queued"
BatchFinalize ==
  /\ tpc["batch"] = "Finalizing"
  /\ regStatus' = "queued"
  /\ lockOwner' = Release("BATCH_LOCK")
  /\ Goto("batch", "Done")
  /\ UNCHANGED <<rounds, regList, regRec, doneFlag, regRuns, entryDone>>
  /\ UNCHANGED <<frameVars, connVars, pipeVars, batchVars, jobVars, createVars, trackVars, ioVars>>

\* ---- GET /api/workflows/{id}/status/{promptId}, for a prompt of the batch

\* GET /history/{prompt_id}: the history has no entry for the prompt, or one
\* with output items that _process_outputs goes through; the handler reads
\* the entry's "outputs" and not its status, which may or may not say
\* completed
StatusHistory ==
  /\ tpc["status"] = "History"
  /\ \E i \in 1..Len(regRuns) : regRuns[i].promptId
  /\ \E found \in BOOLEAN, flag \in BOOLEAN :
       /\ Goto("status", IF found THEN "Download" ELSE "Done")
       /\ entryDone' = (found /\ flag)
  /\ UNCHANGED <<lockOwner, rounds, regList, regRec, doneFlag, regRuns, regStatus>>
  /\ UNCHANGED <<frameVars, connVars, pipeVars, batchVars, jobVars, createVars, trackVars, ioVars>>

\* `for item in output_items` goes on, or ends with save_gallery
StatusLoop ==
  IF rounds["status"] + 1 < MaxRounds
  THEN rounds' = [rounds EXCEPT !["status"] = @ + 1] /\ Goto("status", "Download")
  ELSE UNCHANGED rounds /\ Goto("status", "Done")

\* _request_raw of the item, the file and the record, which has a batchId
\* when the gallery record found for the prompt has one; a failing download
\* ends the request
StatusDownload ==
  /\ tpc["status"] = "Download"
  /\ \E got \in {"batched", "unbatched", "fails"} :
       CASE got = "batched" -> Goto("status", "Lock") /\ UNCHANGED rounds
         [] got = "unbatched" -> StatusLoop
         [] OTHER -> Goto("status", "Done") /\ UNCHANGED rounds
  /\ UNCHANGED <<lockOwner, regList, regRec, doneFlag, regRuns, regStatus, entryDone>>
  /\ UNCHANGED <<frameVars, connVars, pipeVars, batchVars, jobVars, createVars, trackVars, ioVars>>

\* if record.get("batchId"): with BATCH_LOCK:
StatusEnter == Acquire("status", "BATCH_LOCK", "Lock", "Mark")

\* the runs of the prompt are set complete, and the batch when all runs are
StatusMark ==
  /\ tpc["status"] = "Mark"
  /\ \E i \in 1..Len(regRuns) :
       /\ regRuns[i].promptId
       /\ LET marked == [regRuns EXCEPT ![i].status = "complete"] IN
            /\ regRuns' = marked
            /\ regStatus' = IF \A k \in 1..Len(marked) : marked[k].status = "complete"
                            THEN "complete" ELSE regStatus
  /\ lockOwner' = Release("BATCH_LOCK")
  /\ StatusLoop
  /\ UNCHANGED <<regList, regRec, doneFlag, entryDone>>
  /\ UNCHANGED <<frameVars, connVars, pipeVars, batchVars, jobVars, createVars, trackVars, ioVars>>

\* ---- GET /api/pipelines/run/{id} and GET /api/batch/{id}

LockOf(t) == IF t = "pipeReader" THEN "PIPELINE_LOCK" ELSE "BATCH_LOCK"
Readers == {"pipeReader", "batchReader"}

\* with PIPELINE_LOCK: / with BATCH_LOCK:
ReaderEnter(t) == Acquire(t, LockOf(t), "Get", "Got")

\* pipeline = PIPELINES.get(pipeline_id) / batch = BATCHES.get(batch_id)
ReaderGet(t) ==
  /\ tpc[t] = "Got"
  /\ lockOwner' = Release(LockOf(t))
  /\ Goto(t, IF (IF t = "pipeReader" THEN regRec.status ELSE regStatus) = "none"
             THEN "Done" ELSE "Respond")
  /\ UNCHANGED <<rounds, regList, regRec, doneFlag, regRuns, regStatus, entryDone>>
  /\ UNCHANGED <<frameVars, connVars, pipeVars, batchVars, jobVars, createVars, trackVars, ioVars>>

\* _json_response with the record's fields
ReaderRespond(t) ==
  /\ tpc[t] = "Respond"
  /\ Goto(t, "Done")
  /\ UNCHANGED <<lockOwner, rounds, regList, regRec, doneFlag, regRuns, regStatus, entryDone>>
  /\ UNCHANGED <<frameVars, connVars, pipeVars, batchVars, jobVars, createVars, trackVars, ioVars>>

NextLock ==
  \/ PipelineEnter \/ PipelineRegister \/ PipelineLookup \/ PipelinePost
  \/ PipelinePoll \/ PipelineSleep \/ PipelineDownload \/ PipelineUpdate
  \/ PipelineCheck \/ PipelineFinalize
  \/ BatchEnter \/ BatchRegister \/ BatchPost \/ BatchSetRun \/ BatchFinalize
  \/ StatusHistory \/ StatusDownload \/ StatusEnter \/ StatusMark
  \/ \E t \in Readers : ReaderEnter(t)
  \/ \E t \in Readers : ReaderGet(t)
  \/ \E t \in Readers : ReaderRespond(t)

InitLock ==
  /\ LockInit /\ FrameIdle /\ ConnIdle /\ PipeIdle /\ BatchIdle /\ JobIdle
  /\ CreateIdle /\ TrackIdle /\ IoIdle

SpecLock == InitLock /\ [][NextLock]_vars

-----------------------------------------------------------------------------
(* Claims about the registry locks *)

\* the number of completed entries a poller finds in the registry record: its
\* own empty list, or the thread's list once that was assigned
VisibleList == IF regRec.aliased THEN regList ELSE 0

\* C25: every mutation of a pipeline record that a status poller can observe
\* (its status, currentStep and the contents of its completed-steps list) is
\* performed while PIPELINE_LOCK is held; the list of completed steps visible
\* through the registry never changes while the lock is free.
C25_PipelineRecordUnderLock ==
  [][(regRec' # regRec \/ VisibleList' # VisibleList)
       => lockOwner["PIPELINE_LOCK"] = "pipeline"]_vars

\* What does hold: status, currentStep and the reference to the list are
\* assigned under the lock; the appends to the list are not
PipelineFieldsUnderLock ==
  [][regRec' # regRec => lockOwner["PIPELINE_LOCK"] = "pipeline"]_vars

\* the thread t takes a step
Steps(t) == tpc'[t] # tpc[t]

\* C26: every write to a batch record or to one of its Run records (status,
\* promptId, error) by the batch thread, and every read of a pipeline or batch
\* record's fields by a status-polling request, happens while the
\* corresponding registry lock is held, so a poller never reads a record
\* while a writer is in the middle of updating it.
C26_RegistryAccessUnderLock ==
  /\ [][\A t \in Threads :
          (Steps(t) /\ (regRuns' # regRuns \/ regStatus' # regStatus))
            => lockOwner["BATCH_LOCK"] = t]_vars
  /\ [][\A t \in Readers :
          (tpc[t] = "Respond" /\ Steps(t)) => lockOwner[LockOf(t)] = t]_vars

\* What does hold: the batch's status is written under the lock, by whichever
\* thread writes it, and a reader looks the record up under the lock
BatchStatusUnderLock ==
  /\ [][\A t \in Threads :
          (Steps(t) /\ regStatus' # regStatus) => lockOwner["BATCH_LOCK"] = t]_vars
  /\ [][\A t \in Readers :
          (tpc[t] = "Got" /\ Steps(t)) => lockOwner[LockOf(t)] = t]_vars

\* where a thread's next statement is a request to the backend or a sleep
BackendPositions == {"Post", "Poll", "Sleep", "Download", "History"}
\* where a thread is inside a `with` block
LockedPositions == {"Registering", "Updating", "Finalizing", "Mark", "Got"}

\* C36: a batch Run is marked complete only after the backend has reported
\* the completion flag for the run's prompt id: a status poll that finds a
\* history entry whose completion flag is not set never marks the run, or the
\* batch, complete.
C36_CompleteOnlyAfterFlag ==
  /\ [][\A i \in DOMAIN regRuns :
         (i \in DOMAIN regRuns' /\ regRuns[i].status # "complete"
            /\ regRuns'[i].status = "complete") => entryDone]_vars
  /\ [][(regStatus # "complete" /\ regStatus' = "complete") => entryDone]_vars

\* What does hold: a run or the batch is marked complete only by a status
\* request that found a history entry for the prompt and downloaded one of
\* its output items, inside BATCH_LOCK.
CompleteOnlyAfterDownload ==
  [][\A i \in DOMAIN regRuns :
       (i \in DOMAIN regRuns' /\ regRuns[i].status # "complete"
          /\ regRuns'[i].status = "complete")
         => (tpc["status"] = "Mark" /\ lockOwner["BATCH_LOCK"] = "status")]_vars

\* C27: no thread ever performs a backend network call (submit, status poll,
\* output download) or sleeps in a poll loop while holding PIPELINE_LOCK or
\* BATCH_LOCK; each acquisition covers only in-memory reads and writes of the
\* registry.
C27_NoBackendCallUnderLock ==
  /\ [](\A t \in Threads : tpc[t] \in BackendPositions => Holds(t) = {})
  /\ [](\A l \in Locks :
          lockOwner[l] # "free" => tpc[lockOwner[l]] \in LockedPositions)
  /\ [][\A t \in Threads : (Holds(t) # {} /\ Steps(t)) => Holds(t)' = {}]_vars

\* the status request holds BATCH_LOCK for its second item while the batch
\* thread and the pipeline thread are at the backend
C27_Witness ==
  /\ lockOwner["BATCH_LOCK"] = "status"
  /\ rounds["status"] = 1
  /\ tpc["batch"] = "Post"
  /\ tpc["pipeline"] = "Sleep"
  /\ regRec.currentStep = 1

-----------------------------------------------------------------------------
(* Claims about the stored workflow *)

\* C30: executing a job leaves the stored workflow template unchanged: the
\* overrides and the seed resolution go to a deep copy, so no step of
\* execute_job changes the stored graph, and the graph a later job of the
\* same workflow builds holds the template's value in every field its own
\* inputs do not override.
C30_TemplateUnchanged ==
  /\ [][template' = template]_vars
  /\ [][(jpc = "Build" /\ jpc' = "Resolve")
          => /\ DOMAIN template \subseteq DOMAIN prompt'
             /\ \A n \in DOMAIN template : \A f \in DOMAIN template[n] :
                  Key(n, f) \notin DOMAIN inputs
                    => (f \in DOMAIN prompt'[n] /\ prompt'[n][f] = template[n][f])]_vars

\* a later job without overrides has built its graph: it is the template,
\* sentinel seeds included, which every earlier job replaced in its own graph
C30_Witness ==
  /\ later
  /\ jpc = "Resolve"
  /\ inputs = <<>>
  /\ prompt = template
  /\ template \in Templates
  /\ \E n \in DOMAIN template :
       "seed" \in DOMAIN template[n] /\ template[n]["seed"] = IntVal(0)

-----------------------------------------------------------------------------
(* The progress relay: _track_comfyui_progress's handling of one JSON       *)
(* message of the backend's event stream, and _relay_progress, the callback *)
(* network_connect hands to it.                                             *)

\* the messages one run of the loop handles
MaxEvents == 2
\* "value" and "max" of a progress message are taken from -1 .. MaxValue
MaxValue == 2

\* the prompt_id the thread was started for, another job's, and an empty one
TrackedPrompt == "p1"
PromptIds == {"p1", "p2", ""}
Numbers == -1 .. MaxValue
EventTypes == {"progress", "executed", "executing"}

\* a key of a JSON object: <<>> when the key is absent, <<v>> when it is v
Opt(S) == {<<>>} \cup {<<v>> : v \in S}

\* dict.get(key, default)
Get(o, default) == IF o = <<>> THEN default ELSE o[1]

\* the decoded message: its "type" and the keys of its "data" the loop reads
Messages ==
  [type : EventTypes,
   data : [prompt_id : Opt(PromptIds), value : Opt(Numbers), max : Opt(Numbers)]]

NoMessage ==
  [type |-> "none", data |-> [prompt_id |-> <<>>, value |-> <<>>, max |-> <<>>]]

\* msg_data.get("prompt_id") and msg_data["prompt_id"] != prompt_id
NotOurs(msg_data) ==
  /\ Get(msg_data.prompt_id, "") # ""
  /\ msg_data.prompt_id[1] # TrackedPrompt

\* val / mx if mx > 0 else 0, as the fraction num/den
Quotient(val, mx) ==
  IF mx > 0 THEN [num |-> val, den |-> mx] ELSE [num |-> 0, den |-> 1]

\* round(p, 3), in thousandths (no sampled quotient lies half way between two
\* thousandths)
Round3(p) == (2000 * p.num + p.den) \div (2 * p.den)

TrackInit ==
  /\ kpc = "reading"
  /\ event = NoMessage
  /\ called = <<>>
  /\ progress = <<>>
  /\ handled = 0

\* One iteration of the loop on a text frame that parsed as a JSON object:
\* the prompt_id filter, then progress_cb on a progress message (which is
\* _relay_progress: one progress message written to the gateway), break on an
\* executed message, and nothing on any other type.
TrackMessage ==
  /\ kpc = "reading"
  /\ handled < MaxEvents
  /\ \E msg \in Messages :
       LET msg_data == msg.data
           val == Get(msg_data.value, 0)
           mx == Get(msg_data.max, 1)
       IN  /\ event' = msg
           /\ handled' = handled + 1
           /\ IF NotOurs(msg_data)
                THEN /\ called' = <<>>
                     /\ progress' = <<>>
                     /\ kpc' = kpc
                ELSE IF msg.type = "progress"
                  THEN /\ called' = <<Quotient(val, mx)>>
                       /\ progress' = <<Round3(Quotient(val, mx))>>
                       /\ kpc' = kpc
                  ELSE IF msg.type = "executed"
                    THEN /\ called' = <<>>
                         /\ progress' = <<>>
                         /\ kpc' = "returned"
                    ELSE /\ called' = <<>>
                         /\ progress' = <<>>
                         /\ kpc' = kpc
  /\ UNCHANGED <<frameVars, connVars, pipeVars, batchVars, jobVars, createVars,
                 lockVars, ioVars>>

NextTrack == TrackMessage

InitTrack ==
  /\ TrackInit /\ FrameIdle /\ ConnIdle /\ PipeIdle /\ BatchIdle /\ JobIdle
  /\ CreateIdle /\ LockIdle /\ IoIdle

SpecTrack == InitTrack /\ [][NextTrack]_vars

-----------------------------------------------------------------------------
(* Claims about the progress relay *)

\* C28: the relay acts only on the events of the job it tracks: a message that
\* carries a prompt_id other than the tracked one neither invokes the
\* progress callback nor ends the relay, the callback is invoked only for
\* progress messages of the tracked job, and the relay stops on an executed
\* message only when that message is the tracked job's.
C28_OnlyTrackedJob ==
  handled > 0 =>
    /\ (event.data.prompt_id # <<>> /\ event.data.prompt_id # <<"p1">>)
         => (called = <<>> /\ kpc = "reading")
    /\ called # <<>>
         => (event.type = "progress" /\ event.data.prompt_id = <<"p1">>)
    /\ kpc = "returned"
         => (event.type = "executed" /\ event.data.prompt_id = <<"p1">>)

\* What does hold: a message naming another job (a non-empty prompt_id other
\* than the tracked one) is ignored, and the relay acts on a message only if
\* it names the tracked job, names none, or carries an empty prompt_id.
NamedOtherJobIgnored ==
  handled > 0 =>
    /\ event.data.prompt_id = <<"p2">> => (called = <<>> /\ kpc = "reading")
    /\ called # <<>>
         => (event.type = "progress" /\ event.data.prompt_id # <<"p2">>)
    /\ kpc = "returned"
         => (event.type = "executed" /\ event.data.prompt_id # <<"p2">>)

\* C29: the progress value handed to the callback is within [0, 1] for every
\* integer value and max the backend sends; it is value/max when max is not
\* zero and 0 when max is zero (value defaults to 0, max to 1), and the
\* progress field written to the gateway is within [0, 1] as well.
C29_ProgressInUnitInterval ==
  called # <<>> =>
    LET p == called[1]
        val == Get(event.data.value, 0)
        mx == Get(event.data.max, 1)
    IN  /\ 0 <= p.num /\ p.num <= p.den
        /\ progress[1] \in 0 .. 1000
        /\ mx = 0 => p.num = 0
        /\ mx # 0 => p.num * mx = val * p.den

\* What does hold: the value is value/max when max is positive and 0
\* otherwise, and it is within [0, 1] whenever 0 <= value <= max.
ProgressIsQuotient ==
  called # <<>> =>
    LET p == called[1]
        val == Get(event.data.value, 0)
        mx == Get(event.data.max, 1)
    IN  /\ mx > 0 => p.num * mx = val * p.den
        /\ mx <= 0 => p.num = 0
        /\ (0 <= val /\ val <= mx)
             => (0 <= p.num /\ p.num <= p.den /\ progress[1] \in 0 .. 1000)
        /\ (val > mx /\ mx > 0) => progress[1] > 1000
        /\ (val < 0 /\ mx > 0) => progress[1] < 0

-----------------------------------------------------------------------------
(* Writers of the gateway socket.  ws_send and ws_recv's pong end in        *)
(* sock.sendall(frame); the main loop calls them, and so does every relay   *)
(* thread through _relay_progress.  The socket has a timeout set, so        *)
(* sendall is a loop of send calls, each handing over some of the bytes     *)
(* that are left.  No lock is taken around it.                              *)

\* bytes written to the socket in one behaviour
MaxStream == 4

\* the main loop's thread and a relay thread
Writers == {"main", "relay"}

Unsent == writer["main"].unsent + writer["relay"].unsent

WriteInit ==
  /\ writer = [t \in Writers |-> [pc |-> "idle", frames |-> 0, unsent |-> 0]]
  /\ stream = <<>>

\* sock.sendall(header + mask + masked) is entered with a frame of n bytes
SendallBegin(t) ==
  /\ writer[t].pc = "idle"
  /\ \E n \in 1..MaxStream :
       /\ Len(stream) + Unsent + n <= MaxStream
       /\ writer' = [writer EXCEPT ![t] = [pc |-> "sending",
                                           frames |-> writer[t].frames + 1,
                                           unsent |-> n]]
  /\ UNCHANGED stream
  /\ UNCHANGED <<frameVars, connVars, pipeVars, batchVars, jobVars, createVars,
                 lockVars, trackVars, streamVars, netVars>>

\* one send call inside sendall: c of the bytes left reach the socket;
\* sendall returns when none is left
SendSome(t) ==
  /\ writer[t].pc = "sending"
  /\ \E c \in 1..writer[t].unsent :
       /\ stream' = stream \o [i \in 1..c |-> <<t, writer[t].frames>>]
       /\ writer' = [writer EXCEPT ![t].unsent = @ - c,
                                   ![t].pc = IF writer[t].unsent = c THEN "idle" ELSE "sending"]
  /\ UNCHANGED <<frameVars, connVars, pipeVars, batchVars, jobVars, createVars,
                 lockVars, trackVars, streamVars, netVars>>

NextWrite == \E t \in Writers : SendallBegin(t) \/ SendSome(t)

InitWrite ==
  /\ WriteInit /\ FrameIdle /\ ConnIdle /\ PipeIdle /\ BatchIdle /\ JobIdle
  /\ CreateIdle /\ LockIdle /\ TrackIdle /\ StreamIdle /\ NetIdle

SpecWrite == InitWrite /\ [][NextWrite]_vars

-----------------------------------------------------------------------------
(* Claims about the writers of the gateway socket *)

\* C35: frames written to the gateway socket are never interleaved: at no
\* time are two threads inside a write to the socket, and the bytes of each
\* frame reach the socket contiguously.
C35_FramesNotInterleaved ==
  /\ ~(writer["main"].pc = "sending" /\ writer["relay"].pc = "sending")
  /\ \A i \in 1..Len(stream) : \A k \in 1..Len(stream) :
       (i < k /\ stream[i] = stream[k])
         => \A j \in i..k : stream[j] = stream[i]

\* What does hold: every thread's own bytes reach the socket in the order of
\* its frames, and a frame is contiguous whenever no other thread was inside
\* sendall while it was written.
OwnFramesInOrder ==
  /\ \A i \in 1..Len(stream) : \A k \in 1..Len(stream) :
       (i < k /\ stream[i][1] = stream[k][1]) => stream[i][2] <= stream[k][2]
  /\ \A t \in Writers : writer[t].pc = "idle" <=> writer[t].unsent = 0

-----------------------------------------------------------------------------
(* The reader of a connection.  The peer's bytes arrive in pieces; the      *)
(* handshake loop reads until the header terminator is in what it has read, *)
(* then ws_recv reads frames through _recv_all, whose sock.recv either      *)
(* returns bytes that have arrived or raises socket.timeout.                *)
(*                                                                         *)
(* rd.stage is "handshake" (the response loop), "header", "ext" or          *)
(* "payload" (the _recv_all call ws_recv is in), or "closed".               *)

\* frames the peer sends after its response header
MaxPeerFrames == 2
\* payload bytes of one such frame
MaxBody == 2

\* the response header: a byte of the status line (with 101), then 10, which
\* stands for the terminator \r\n\r\n
ResponseHeader == <<72, 10>>
Terminated(resp) == \E i \in 1..Len(resp) : resp[i] = 10
AfterTerminator(resp) ==
  LET i == CHOOSE k \in 1..Len(resp) : resp[k] = 10 /\ \A j \in 1..(k - 1) : resp[j] # 10
  IN  SubSeq(resp, i + 1, Len(resp))

\* a payload of n bytes
Body(n) == [i \in 1..n |-> 129]

RECURSIVE FramesBytes(_)
\* the frames as the peer writes them, one after the other
FramesBytes(fs) ==
  IF fs = <<>> THEN <<>> ELSE ServerFrame(OpText, Head(fs)) \o FramesBytes(Tail(fs))

\* ws_recv is entered: _recv_all(sock, 2) with nothing read
AtHeader == [stage |-> "header", need |-> 2, buf |-> <<>>, held |-> 0, op |-> 0]

StreamInit ==
  /\ peerFrames \in SeqsUpTo({Body(n) : n \in 0..MaxBody}, MaxPeerFrames)
  /\ peer = ResponseHeader \o FramesBytes(peerFrames)
  /\ rcvbuf = <<>>
  /\ rd = [stage |-> "handshake", need |-> 0, buf |-> <<>>, held |-> 0, op |-> 0]
  /\ delivered = <<>>
  /\ dropped = [handshake |-> 0, timeout |-> 0]

\* the network delivers the next bytes of the peer
Arrive ==
  /\ peer # <<>>
  /\ \E k \in 1..Len(peer) :
       /\ rcvbuf' = rcvbuf \o SubSeq(peer, 1, k)
       /\ peer' = SubSeq(peer, k + 1, Len(peer))
  /\ UNCHANGED <<rd, delivered, peerFrames, dropped>>
  /\ UNCHANGED <<frameVars, connVars, pipeVars, batchVars, jobVars, createVars,
                 lockVars, trackVars, writeVars, netVars>>

\* chunk = sock.recv(4096); response += chunk; the loop ends when the
\* terminator is in response, and response is used for the status line only
HandshakeRecv ==
  /\ rd.stage = "handshake"
  /\ rcvbuf # <<>>
  /\ rcvbuf' = <<>>
  /\ LET response == rd.buf \o rcvbuf IN
       IF Terminated(response)
       THEN /\ rd' = AtHeader
            /\ dropped' = [dropped EXCEPT !.handshake = Len(AfterTerminator(response))]
       ELSE /\ rd' = [rd EXCEPT !.buf = response]
            /\ UNCHANGED dropped
  /\ UNCHANGED <<peer, delivered, peerFrames>>
  /\ UNCHANGED <<frameVars, connVars, pipeVars, batchVars, jobVars, createVars,
                 lockVars, trackVars, writeVars, netVars>>

\* what ws_recv does once _recv_all has returned the n bytes b it asked for
AfterRead(r, b) ==
  LET held == r.held + Len(b) - Len(r.buf)
      toPayload(op, length) ==
        [stage |-> "payload", need |-> length, buf |-> <<>>, held |-> held, op |-> op]
  IN
  CASE r.stage = "header" ->
         LET opcode == b[1] % 16
             length == b[2] % 128
         IN  IF opcode = 8 THEN [rd |-> [AtHeader EXCEPT !.stage = "closed"], out |-> <<>>]
             ELSE IF opcode = 9
               THEN IF length = 0 THEN [rd |-> AtHeader, out |-> <<>>]
                    ELSE [rd |-> toPayload(9, length), out |-> <<>>]
             ELSE IF length \in {126, 127}
               THEN [rd |-> [stage |-> "ext", need |-> IF length = 126 THEN 2 ELSE 8,
                             buf |-> <<>>, held |-> held, op |-> opcode],
                     out |-> <<>>]
             ELSE IF length = 0 THEN [rd |-> AtHeader, out |-> <<(<<>>)>>]
             ELSE [rd |-> toPayload(opcode, length), out |-> <<>>]
    [] r.stage = "ext" ->
         IF UnpackBE(b) = 0 THEN [rd |-> AtHeader, out |-> <<(<<>>)>>]
         ELSE [rd |-> toPayload(r.op, UnpackBE(b)), out |-> <<>>]
    [] OTHER ->
         IF r.op = 9 THEN [rd |-> AtHeader, out |-> <<>>]
         ELSE [rd |-> AtHeader, out |-> <<b>>]

\* chunk = sock.recv(n - len(buf)) in _recv_all returns bytes that have
\* arrived; with all n bytes read ws_recv goes on, and returns the payload
\* when it was the payload's
RecvChunk ==
  /\ rd.stage \in {"header", "ext", "payload"}
  /\ rcvbuf # <<>>
  /\ LET want == rd.need - Len(rd.buf)
         k == IF Len(rcvbuf) < want THEN Len(rcvbuf) ELSE want
         buf == rd.buf \o SubSeq(rcvbuf, 1, k)
     IN  /\ rcvbuf' = SubSeq(rcvbuf, k + 1, Len(rcvbuf))
         /\ IF Len(buf) < rd.need
            THEN /\ rd' = [rd EXCEPT !.buf = buf, !.held = @ + k]
                 /\ UNCHANGED delivered
            ELSE /\ rd' = AfterRead(rd, buf).rd
                 /\ delivered' = delivered \o AfterRead(rd, buf).out
  /\ UNCHANGED <<peer, peerFrames, dropped>>
  /\ UNCHANGED <<frameVars, connVars, pipeVars, batchVars, jobVars, createVars,
                 lockVars, trackVars, writeVars, netVars>>

\* nothing has arrived within the socket's timeout: sock.recv raises
\* socket.timeout, which leaves _recv_all and ws_recv with their local
\* variables; the main loop's `except socket.timeout: continue` calls
\* ws_recv again
ReadTimeout ==
  /\ rd.stage \in {"header", "ext", "payload"}
  /\ rcvbuf = <<>>
  /\ rd' = AtHeader
  /\ dropped' = [dropped EXCEPT !.timeout = @ + rd.held]
  /\ UNCHANGED <<peer, rcvbuf, delivered, peerFrames>>
  /\ UNCHANGED <<frameVars, connVars, pipeVars, batchVars, jobVars, createVars,
                 lockVars, trackVars, writeVars, netVars>>

NextStream == Arrive \/ HandshakeRecv \/ RecvChunk \/ ReadTimeout

InitStream ==
  /\ StreamInit /\ FrameIdle /\ ConnIdle /\ PipeIdle /\ BatchIdle /\ JobIdle
  /\ CreateIdle /\ LockIdle /\ TrackIdle /\ WriteIdle /\ NetIdle

SpecStream == InitStream /\ [][NextStream]_vars

-----------------------------------------------------------------------------
(* Claims about the reader of a connection *)

\* C37: in Listening a socket read timeout leaves the byte stream
\* frame-aligned: the bytes of a frame consumed before the timeout are not
\* lost, so the next successful decode returns that frame's complete payload
\* and payload bytes are never read as a frame header.
C37_TimeoutKeepsAlignment ==
  /\ dropped.timeout = 0
  /\ dropped.handshake = 0 => IsPrefix(delivered, peerFrames)

\* What does hold: while neither the handshake nor a timeout has discarded a
\* byte, the payloads returned are the payloads sent, in order; and a timeout
\* that strikes between two frames discards nothing.
AlignedWhenNothingDropped ==
  /\ (dropped.handshake = 0 /\ dropped.timeout = 0) => IsPrefix(delivered, peerFrames)
  /\ rd.held = 0 => (rd.buf = <<>> \/ rd.stage = "handshake")

\* C38: no byte the peer sends after the handshake response header is lost:
\* bytes that arrive in the same read as the header terminator are given to
\* the frame decoder, so the first frame decoded after a successful handshake
\* is the first frame the peer sent.
C38_NoByteLostAfterHandshake ==
  /\ dropped.handshake = 0
  /\ (dropped.timeout = 0 /\ delivered # <<>>) => delivered[1] = peerFrames[1]

\* What does hold: when the response header arrives in a read of its own,
\* the handshake discards nothing.
HeaderAloneLosesNothing ==
  [][(rd.stage = "handshake" /\ rd'.stage = "header"
        /\ rcvbuf[Len(rcvbuf)] = 10) => dropped'.handshake = 0]_vars

(***************************************************************************)
(* SpecNet: the network connect process manager of the dashboard server    *)
(* (server.py 24-25, 46-116).  The request threads of the                  *)
(* ThreadingHTTPServer call net_start, net_stop and net_status; each of    *)
(* the three runs its body under `with _net_lock`.  A call is split at     *)
(* every point where another thread can run: before the lock, between the  *)
(* poll and the Popen, and while net_stop waits for the process to end.    *)
(* npc[t] is where thread t is; once a call has returned it is the         *)
(* status the call returned.  A process is a positive pid; _net_proc = 0   *)
(* is None.  A process that has got SIGKILL counts as ended.  The config   *)
(* file net_start saves before the lock, the log and the external pgrep    *)
(* branch of net_stop touch no process the server launched and are left    *)
(* out.                                                                    *)
(***************************************************************************)
MaxLaunches == 2

NetCallers == {"a", "b"}

NetOps == {"start", "stop", "status"}

NetResults == {"none", "started", "already_running", "stopped",
               "not_running", "reported"}

NetInit ==
  /\ netLock = "free"
  /\ npc = [t \in NetCallers |-> "none"]
  /\ net_proc = 0
  /\ alive = {}
  /\ nextPid = 0

\* `_net_proc and _net_proc.poll() is None`
Running == net_proc # 0 /\ net_proc \in alive

\* the calls of net_start that have not returned yet
Starting == {t \in NetCallers : npc[t] \in {"start", "startIn", "startPopen"}}

\* a request thread enters one of the three functions
NetCall(t, op) ==
  /\ npc[t] \in NetResults
  /\ op = "start" => nextPid + Cardinality(Starting) < MaxLaunches
  /\ npc' = [npc EXCEPT ![t] = op]
  /\ UNCHANGED <<netLock, net_proc, alive, nextPid>>
  /\ UNCHANGED <<frameVars, connVars, pipeVars, batchVars, jobVars, createVars,
                 lockVars, trackVars, writeVars, streamVars>>

\* `with _net_lock:` blocks while another thread holds the lock; without
\* the lock a thread would enter at once
MayEnterAlways(t) == TRUE

MayEnter(t) == netLock = "free"

NetAcquire(t) ==
  /\ npc[t] \in NetOps
  /\ MayEnter(t)
  /\ netLock' = t
  /\ npc' = [npc EXCEPT ![t] = npc[t] \o "In"]
  /\ UNCHANGED <<net_proc, alive, nextPid>>
  /\ UNCHANGED <<frameVars, connVars, pipeVars, batchVars, jobVars, createVars,
                 lockVars, trackVars, writeVars, streamVars>>

\* net_start, line 56-57: the poll, and the return when a process runs
StartPoll(t) ==
  /\ npc[t] = "startIn"
  /\ IF Running
       THEN /\ npc' = [npc EXCEPT ![t] = "already_running"]
            /\ netLock' = "free"
       ELSE /\ npc' = [npc EXCEPT ![t] = "startPopen"]
            /\ UNCHANGED netLock
  /\ UNCHANGED <<net_proc, alive, nextPid>>
  /\ UNCHANGED <<frameVars, connVars, pipeVars, batchVars, jobVars, createVars,
                 lockVars, trackVars, writeVars, streamVars>>

\* net_start, lines 58-70: the launch
Popen(t) ==
  /\ npc[t] = "startPopen"
  /\ nextPid' = nextPid + 1
  /\ net_proc' = nextPid + 1
  /\ alive' = alive \cup {nextPid + 1}
  /\ npc' = [npc EXCEPT ![t] = "started"]
  /\ netLock' = "free"
  /\ UNCHANGED <<frameVars, connVars, pipeVars, batchVars, jobVars, createVars,
                 lockVars, trackVars, writeVars, streamVars>>

\* net_stop, lines 76-77 and 85-100: the poll, then terminate() or the
\* return without a managed process
StopPoll(t) ==
  /\ npc[t] = "stopIn"
  /\ IF Running
       THEN /\ npc' = [npc EXCEPT ![t] = "stopWait"]
            /\ UNCHANGED <<netLock, net_proc>>
       ELSE /\ npc' = [npc EXCEPT ![t] = "not_running"]
            /\ net_proc' = 0
            /\ netLock' = "free"
  /\ UNCHANGED <<alive, nextPid>>
  /\ UNCHANGED <<frameVars, connVars, pipeVars, batchVars, jobVars, createVars,
                 lockVars, trackVars, writeVars, streamVars>>

\* net_stop, lines 78-84: wait(timeout=5) returns because the process
\* ended, or it raises TimeoutExpired and kill() ends the process
StopWait(t) ==
  /\ npc[t] = "stopWait"
  /\ alive' = alive \ {net_proc}
  /\ net_proc' = 0
  /\ npc' = [npc EXCEPT ![t] = "stopped"]
  /\ netLock' = "free"
  /\ UNCHANGED nextPid
  /\ UNCHANGED <<frameVars, connVars, pipeVars, batchVars, jobVars, createVars,
                 lockVars, trackVars, writeVars, streamVars>>

\* net_status, lines 105-116
StatusPoll(t) ==
  /\ npc[t] = "statusIn"
  /\ net_proc' = IF Running THEN net_proc ELSE 0
  /\ npc' = [npc EXCEPT ![t] = "reported"]
  /\ netLock' = "free"
  /\ UNCHANGED <<alive, nextPid>>
  /\ UNCHANGED <<frameVars, connVars, pipeVars, batchVars, jobVars, createVars,
                 lockVars, trackVars, writeVars, streamVars>>

\* the provider process ends on its own (its connection loop returns, or
\* it crashes)
ProcExit ==
  /\ \E p \in alive : alive' = alive \ {p}
  /\ UNCHANGED <<netLock, npc, net_proc, nextPid>>
  /\ UNCHANGED <<frameVars, connVars, pipeVars, batchVars, jobVars, createVars,
                 lockVars, trackVars, writeVars, streamVars>>

NextNet ==
  \/ \E t \in NetCallers, op \in NetOps : NetCall(t, op)
  \/ \E t \in NetCallers : NetAcquire(t)
  \/ \E t \in NetCallers : StartPoll(t)
  \/ \E t \in NetCallers : Popen(t)
  \/ \E t \in NetCallers : StopPoll(t)
  \/ \E t \in NetCallers : StopWait(t)
  \/ \E t \in NetCallers : StatusPoll(t)
  \/ ProcExit

InitNet ==
  /\ NetInit /\ FrameIdle /\ ConnIdle /\ PipeIdle /\ BatchIdle /\ JobIdle
  /\ CreateIdle /\ LockIdle /\ TrackIdle /\ WriteIdle /\ StreamIdle

SpecNet == InitNet /\ [][NextNet]_vars

\* at most one launched process is alive, it is the one _net_proc names,
\* and a net_start that is about to launch has found none alive
OneProcessAlive ==
  /\ Cardinality(alive) <= 1
  /\ alive \subseteq {net_proc}
  /\ \A t \in NetCallers : npc[t] = "startPopen" => alive = {}

\* the two returns of net_start, step by step: a launch starts from no
\* process alive; the call that finds its process running returns
\* already_running and changes nothing
StartLaunchesOnlyWhenNoneRuns ==
  [][/\ nextPid' # nextPid => (alive = {} /\ alive' = {net_proc'})
     /\ \A t \in NetCallers :
          (npc[t] = "startIn" /\ Running /\ npc'[t] # "startIn")
            => (/\ npc'[t] = "already_running"
                /\ nextPid' = nextPid /\ alive' = alive
                /\ net_proc' = net_proc)]_vars

====
